---- MODULE Spec2Model ----
(***************************************************************************)
(* Model of the Cults3D polling coordinator                                *)
(* (custom_components/cults3d/coordinator.py).                             *)
(*                                                                         *)
(* Conventions.                                                            *)
(*  - A Python Optional is a sequence: None is <<>>, a value v is <<v>>.   *)
(*  - A member of a JSON object is a record [k, v]: k = "missing" (key     *)
(*    absent), "null" (JSON null) or "val" (value v).                      *)
(*  - A call that may raise yields [exc, val]: exc = "none" when it        *)
(*    returns val, else the name of the Python exception raised.           *)
(*  - Instants are integers (days); money amounts are integers.            *)
(***************************************************************************)
EXTENDS Integers, Sequences, FiniteSets, TLC

(***************************************************************************)
(* Bounds of the model.                                                    *)
(***************************************************************************)
MaxCycles == 2
MaxClock == 1
MaxTracked == 2
MaxSales == 2
MaxListed == 2

(***************************************************************************)
(* Program constants.                                                      *)
(***************************************************************************)
ThirtyDays == 30

(***************************************************************************)
(* Python and JSON values.                                                 *)
(***************************************************************************)
None == <<>>
Some(v) == <<v>>

Missing(d) == [k |-> "missing", v |-> d]
Null(d) == [k |-> "null", v |-> d]
Val(v) == [k |-> "val", v |-> v]

\* dict.get(key): None for an absent key and for JSON null.
Get(f) == IF f.k = "val" THEN Some(f.v) ELSE None

\* dict.get(key, 0) or 0  (a counter of a creation or of the profile)
CountOrZero(f) == IF f.k = "val" THEN f.v ELSE 0

Returns(v) == [exc |-> "none", val |-> v]
Raises(e, d) == [exc |-> e, val |-> d]

(***************************************************************************)
(* Strings that the code inspects are sequences of atomic pieces.          *)
(***************************************************************************)
StartsWith(s, p) == Len(s) >= Len(p) /\ SubSeq(s, 1, Len(p)) = p
HttpPrefix == <<"http">>
SiteRoot == <<"http", "s://cults3d.com">>

(***************************************************************************)
(* Timestamps.  A JSON timestamp member holds a value of one of the forms  *)
(*   "nonstring"  a JSON number or object,                                 *)
(*   "empty"      the string "",                                           *)
(*   "bad"        a string datetime.fromisoformat rejects,                 *)
(*   "zulu"       an ISO-8601 instant ending in Z,                         *)
(*   "offset"     an ISO-8601 instant with a numeric UTC offset,           *)
(*   "naive"      an ISO-8601 date-time without any offset.                *)
(* t is the instant (for "naive": the wall-clock reading).                 *)
(* A datetime is [t, aware].                                               *)
(***************************************************************************)
TsForms == {"nonstring", "empty", "bad", "zulu", "offset", "naive"}
Ts(form, t) == [form |-> form, t |-> t]
NoTs == Ts("empty", 0)
DateTime(t, aware) == [t |-> t, aware |-> aware]
NoDateTime == DateTime(0, FALSE)

\* `if pub_str:` -- truthiness of the value of a timestamp member
TsTruthy(f) == f.k = "val" /\ f.v.form # "empty"

\* datetime.fromisoformat(s.replace("Z", "+00:00"))
FromIsoFormat(s) ==
    CASE s.form = "nonstring" -> Raises("AttributeError", NoDateTime)
      [] s.form = "bad" -> Raises("ValueError", NoDateTime)
      [] s.form = "empty" -> Raises("ValueError", NoDateTime)
      [] s.form = "naive" -> Returns(DateTime(s.t, FALSE))
      [] OTHER -> Returns(DateTime(s.t, TRUE))

\* a <= b and a >= b on datetimes: TypeError when exactly one is naive
DtComparable(a, b) == a.aware = b.aware
DtLe(a, b) == IF DtComparable(a, b) THEN Returns(a.t <= b.t) ELSE Raises("TypeError", FALSE)
DtGe(a, b) == IF DtComparable(a, b) THEN Returns(a.t >= b.t) ELSE Raises("TypeError", FALSE)
DtPlus(a, d) == DateTime(a.t + d, a.aware)

\* datetime.now(timezone.utc)
UtcNow(clock) == DateTime(clock, TRUE)

(***************************************************************************)
(* The dataclasses CreationData, TrackedCreationData and Cults3DData.      *)
(***************************************************************************)
CreationData(name, url, image_url, views_count, downloads_count, likes_count, published_at) ==
    [name |-> name, url |-> url, image_url |-> image_url,
     views_count |-> views_count, downloads_count |-> downloads_count,
     likes_count |-> likes_count, published_at |-> published_at]

\* CreationData()
DefaultCreationData == CreationData(None, None, None, 0, 0, 0, None)

TrackedCreationData(slug, name, url, image_url, creator, published_at, views_count, downloads_count, likes_count, window_start, window_end, is_within_30_days) ==
    [slug |-> slug, name |-> name, url |-> url, image_url |-> image_url,
     creator |-> creator, published_at |-> published_at,
     views_count |-> views_count, downloads_count |-> downloads_count,
     likes_count |-> likes_count, window_start |-> window_start,
     window_end |-> window_end, is_within_30_days |-> is_within_30_days]

\* (mutant of DefaultTrackedCreationData) the slug is not passed on
DefaultTrackedCreationData_noslug(slug) ==
    TrackedCreationData("", None, None, None, None, None, 0, 0, 0, None, None, FALSE)

\* TrackedCreationData(slug=slug)
DefaultTrackedCreationData(slug) ==
    TrackedCreationData(slug, None, None, None, None, None, 0, 0, 0, None, None, FALSE)

\* A dict[str, TrackedCreationData] is a sequence of <<key, value>> pairs in
\* insertion order with distinct keys.
EmptyDict == <<>>
DictKeys(d) == {d[i][1] : i \in 1..Len(d)}
DictHas(d, key) == key \in DictKeys(d)
DictGet(d, key) == d[CHOOSE i \in 1..Len(d) : d[i][1] = key][2]
\* d[key] = value
DictSet(d, key, value) ==
    IF DictHas(d, key)
    THEN [i \in 1..Len(d) |-> IF d[i][1] = key THEN <<key, value>> ELSE d[i]]
    ELSE Append(d, <<key, value>>)

Cults3DData(username, followers_count, following_count, creations_count, total_sales_amount, total_sales_count, monthly_sales_amount, monthly_sales_count, sales_data_available, latest_creation, top_downloaded, tracked_creations) ==
    [username |-> username, followers_count |-> followers_count,
     following_count |-> following_count, creations_count |-> creations_count,
     total_sales_amount |-> total_sales_amount, total_sales_count |-> total_sales_count,
     monthly_sales_amount |-> monthly_sales_amount,
     monthly_sales_count |-> monthly_sales_count,
     sales_data_available |-> sales_data_available,
     latest_creation |-> latest_creation, top_downloaded |-> top_downloaded,
     tracked_creations |-> tracked_creations]

(***************************************************************************)
(* A creation object of a response:                                        *)
(*  [name, shortUrl, illustrationImageUrl, viewsCount, downloadsCount,     *)
(*   likesCount, publishedAt, creator], every member a JSON member;        *)
(*  creator holds [nick].                                                  *)
(***************************************************************************)
NoNick == [nick |-> Missing("")]
CreationObj(name, shortUrl, image, views, downloads, likes, publishedAt, creator) ==
    [name |-> name, shortUrl |-> shortUrl, illustrationImageUrl |-> image,
     viewsCount |-> views, downloadsCount |-> downloads, likesCount |-> likes,
     publishedAt |-> publishedAt, creator |-> creator]
\* the object {} : no member at all
EmptyCreationObj ==
    CreationObj(Missing(""), Missing(<<>>), Missing(""), Missing(0), Missing(0),
                Missing(0), Missing(NoTs), Missing(NoNick))

\* (mutant of NormalizeUrl) a relative URL is passed on as it is
NormalizeUrl_keep(f) ==
    IF f.k = "val" /\ f.v # <<>> THEN Some(f.v) ELSE None

\* url = c.get("shortUrl", ""); if url and not url.startswith("http"): url = root + url;
\* ... url or None
NormalizeUrl(f) ==
    IF f.k = "val" /\ f.v # <<>>
    THEN Some(IF StartsWith(f.v, HttpPrefix) THEN f.v ELSE SiteRoot \o f.v)
    ELSE None

\* published_at of _parse_creation: [exc, val]; ValueError and TypeError are
\* swallowed, any other exception leaves the function.
ParsePublishedAt(f) ==
    IF ~TsTruthy(f) THEN Returns(None)
    ELSE LET r == FromIsoFormat(f.v)
         IN  CASE r.exc = "none" -> Returns(Some(r.val))
               [] r.exc \in {"ValueError", "TypeError"} -> Returns(None)
               [] OTHER -> Raises(r.exc, None)

\* _parse_creation(creation_list): creation_list is a JSON member holding a list
ParseCreation(creation_list) ==
    IF creation_list.k # "val" \/ creation_list.v = <<>>
    THEN Returns(DefaultCreationData)
    ELSE LET creation == creation_list.v[1]
             pub == ParsePublishedAt(creation.publishedAt)
         IN  IF pub.exc # "none" THEN Raises(pub.exc, DefaultCreationData)
             ELSE Returns(CreationData(Get(creation.name),
                                       NormalizeUrl(creation.shortUrl),
                                       Get(creation.illustrationImageUrl),
                                       CountOrZero(creation.viewsCount),
                                       CountOrZero(creation.downloadsCount),
                                       CountOrZero(creation.likesCount),
                                       pub.val))

\* the window computation of _parse_single_creation:
\* [exc, val |-> [published_at, window_start, window_end, is_within_30_days]]
Window(published_at, window_start, window_end, is_within_30_days) ==
    [published_at |-> published_at, window_start |-> window_start,
     window_end |-> window_end, is_within_30_days |-> is_within_30_days]
NoWindow == Window(None, None, None, FALSE)

\* (mutant of ParseWindow) the end of the window is the publication instant
ParseWindow_noend(f, clock) ==
    IF ~TsTruthy(f) THEN Returns(NoWindow)
    ELSE LET r == FromIsoFormat(f.v)
         IN  CASE r.exc = "none" ->
                    LET cmp == DtLe(UtcNow(clock), DtPlus(r.val, ThirtyDays))
                    IN  Returns(Window(Some(r.val), Some(r.val), Some(r.val),
                                       IF cmp.exc = "none" THEN cmp.val ELSE FALSE))
               [] r.exc \in {"ValueError", "TypeError"} -> Returns(NoWindow)
               [] OTHER -> Raises(r.exc, NoWindow)

ParseWindow(f, clock) ==
    IF ~TsTruthy(f) THEN Returns(NoWindow)
    ELSE LET r == FromIsoFormat(f.v)
         IN  CASE r.exc = "none" ->
                    LET published_at == r.val
                        window_end == DtPlus(published_at, ThirtyDays)
                        cmp == DtLe(UtcNow(clock), window_end)
                    IN  Returns(Window(Some(published_at), Some(published_at),
                                       Some(window_end),
                                       IF cmp.exc = "none" THEN cmp.val ELSE FALSE))
               [] r.exc \in {"ValueError", "TypeError"} -> Returns(NoWindow)
               [] OTHER -> Raises(r.exc, NoWindow)

\* creator_data = c.get("creator", {}); creator_data.get("nick") if creator_data else None
CreatorOf(f) ==
    IF f.k = "val" /\ f.v # NoNick THEN Get(f.v.nick) ELSE None

\* _parse_single_creation(creation_data, slug) evaluated at instant clock;
\* creation_data is the JSON member "creation"
ParseSingleCreation(creation_data, slug, clock) ==
    IF creation_data.k # "val" \/ creation_data.v = EmptyCreationObj
    THEN Returns(DefaultTrackedCreationData(slug))
    ELSE LET c == creation_data.v
             w == ParseWindow(c.publishedAt, clock)
         IN  IF w.exc # "none" THEN Raises(w.exc, DefaultTrackedCreationData(slug))
             ELSE Returns(TrackedCreationData(slug, Get(c.name), NormalizeUrl(c.shortUrl),
                              Get(c.illustrationImageUrl), CreatorOf(c.creator),
                              w.val.published_at,
                              CountOrZero(c.viewsCount), CountOrZero(c.downloadsCount),
                              CountOrZero(c.likesCount),
                              w.val.window_start, w.val.window_end,
                              w.val.is_within_30_days))

(***************************************************************************)
(* The API client.  A response is what one POST produces:                  *)
(*   kind "http"                 a response with a status and a body,      *)
(*   kind "ClientResponseError"  aiohttp.ClientResponseError with a status,*)
(*   kind "ClientError"          any other aiohttp.ClientError,            *)
(*   kind "TimeoutError"         asyncio.TimeoutError (no ClientError).    *)
(* A body is [null, errors, data]: null says the JSON document is `null`,  *)
(* errors is a JSON member holding a list of messages, data a JSON member  *)
(* holding the query's data object.                                        *)
(***************************************************************************)
Body(errors, data) == [null |-> FALSE, errors |-> errors, data |-> data]
NullBody(nil) == [null |-> TRUE, errors |-> Missing(<<>>), data |-> Missing(nil)]
Http(status, body) == [kind |-> "http", status |-> status, body |-> body]
Fault(kind, status, nil) == [kind |-> kind, status |-> status, body |-> NullBody(nil)]

\* "errors" in data and data["errors"]
ErrorsTruthy(body) == body.errors.k = "val" /\ body.errors.v # <<>>

\* {"data": None, "errors": [{"message": ...}]}
ErrorResult(message, nil) == Body(Val(<<message>>), Null(nil))

\* (mutant of AuthStatuses) 403 is not taken for an authentication failure
AuthStatuses_only401 == {401}

AuthStatuses == {401, 403}

\* _async_execute_query(query, variables, raise_on_error) for the response the
\* POST produced; nil is the empty data object of the query.
ExecuteQuery(response, raise_on_error, nil) ==
    LET failed(e, message) ==
            IF raise_on_error THEN Raises(e, ErrorResult(message, nil))
            ELSE Returns(ErrorResult(message, nil))
        auth == Raises("ConfigEntryAuthFailed", ErrorResult("auth", nil))
    IN  CASE response.kind = "http" ->
                 IF response.status \in AuthStatuses THEN auth
                 ELSE IF response.status # 200 THEN failed("UpdateFailed", "HTTP status")
                 ELSE IF response.body.null
                      THEN Raises("TypeError", ErrorResult("null body", nil))
                 ELSE IF ErrorsTruthy(response.body) /\ raise_on_error
                      THEN Raises("UpdateFailed", ErrorResult("GraphQL error", nil))
                 ELSE Returns(response.body)
          [] response.kind = "ClientResponseError" ->
                 IF response.status \in AuthStatuses THEN auth
                 ELSE failed("UpdateFailed", "API request failed")
          [] response.kind = "ClientError" -> failed("UpdateFailed", "Connection error")
          [] OTHER -> Raises(response.kind, ErrorResult("", nil))

\* result.get("data", {}).get(key): [exc, val] where val is the JSON member
\* `key` of the data object (its k is "missing" when data has no such key)
DataMember(result, key, absent) ==
    CASE result.data.k = "missing" -> Returns(absent)
      [] result.data.k = "null" -> Raises("AttributeError", absent)
      [] OTHER -> Returns(result.data.v[key])

(***************************************************************************)
(* Tracked creations.  Data object: [creation].                            *)
(***************************************************************************)
NilCreationQueryData == [creation |-> Missing(EmptyCreationObj)]

\* _fetch_tracked_creation(slug): [exc, val]
FetchTrackedCreation(response, slug, clock) ==
    LET r == ExecuteQuery(response, TRUE, NilCreationQueryData)
        dflt == DefaultTrackedCreationData(slug)
    IN  IF r.exc = "UpdateFailed" THEN Returns(dflt)
        ELSE IF r.exc # "none" THEN Raises(r.exc, dflt)
        ELSE LET m == DataMember(r.val, "creation", Missing(EmptyCreationObj))
             IN  IF m.exc # "none" THEN Raises(m.exc, dflt)
                 ELSE ParseSingleCreation(m.val, slug, clock)

(***************************************************************************)
(* Sales.  Data object: [myself]; myself: [salesBatch]; salesBatch:        *)
(* [results]; a sale: [income, createdAt]; income: [value]; a value is     *)
(* [numeric, n]: the number n, or a string float() rejects.                *)
(***************************************************************************)
Amount(n) == [numeric |-> TRUE, n |-> n]
BadAmount == [numeric |-> FALSE, n |-> 0]
NoIncome == [value |-> Missing(Amount(0))]
Sale(income, createdAt) == [income |-> income, createdAt |-> createdAt]
NoSalesBatch == [results |-> Missing(<<>>)]
NoMyself == [salesBatch |-> Missing(NoSalesBatch)]
NilSalesQueryData == [myself |-> Missing(NoMyself)]

SalesData(total_sales_amount, total_sales_count, monthly_sales_amount, monthly_sales_count, sales_data_available) ==
    [total_sales_amount |-> total_sales_amount, total_sales_count |-> total_sales_count,
     monthly_sales_amount |-> monthly_sales_amount,
     monthly_sales_count |-> monthly_sales_count,
     sales_data_available |-> sales_data_available]
\* return 0.0, 0, 0.0, 0, False
SalesUnavailable == SalesData(0, 0, 0, 0, FALSE)

\* float(income_data.get("value", 0) or 0) if income_data else 0.0
IncomeValue(income) ==
    IF income.k # "val" \/ income.v = NoIncome \/ income.v.value.k # "val"
    THEN Returns(0)
    ELSE IF income.v.value.v.numeric THEN Returns(income.v.value.v.n)
    ELSE Raises("ValueError", 0)

\* the test of the monthly window for one sale: [exc, val |-> counted]
InMonthlyWindow(createdAt, thirty_days_ago) ==
    IF ~TsTruthy(createdAt) THEN Returns(FALSE)
    ELSE LET r == FromIsoFormat(createdAt.v)
         IN  CASE r.exc = "none" ->
                    LET cmp == DtGe(r.val, thirty_days_ago)
                    IN  Returns(IF cmp.exc = "none" THEN cmp.val ELSE FALSE)
               [] r.exc \in {"ValueError", "TypeError"} -> Returns(FALSE)
               [] OTHER -> Raises(r.exc, FALSE)

\* (mutant of SumSales) a sale of the monthly window is left out of the totals
RECURSIVE SumSales_split(_, _, _, _)
SumSales_split(results, i, acc, thirty_days_ago) ==
    IF i > Len(results) THEN Returns(acc)
    ELSE LET sale == results[i]
             income_value == IncomeValue(sale.income)
             monthly == InMonthlyWindow(sale.createdAt, thirty_days_ago)
         IN  IF income_value.exc # "none" THEN Raises(income_value.exc, acc)
             ELSE IF monthly.exc # "none" THEN Raises(monthly.exc, acc)
             ELSE SumSales_split(results, i + 1,
                      SalesData(acc.total_sales_amount
                                    + (IF monthly.val THEN 0 ELSE income_value.val),
                                acc.total_sales_count + (IF monthly.val THEN 0 ELSE 1),
                                acc.monthly_sales_amount
                                    + (IF monthly.val THEN income_value.val ELSE 0),
                                acc.monthly_sales_count + (IF monthly.val THEN 1 ELSE 0),
                                TRUE),
                      thirty_days_ago)

\* the body of `for sale in results:` from the i-th sale on, acc the sums so far
RECURSIVE SumSales(_, _, _, _)
SumSales(results, i, acc, thirty_days_ago) ==
    IF i > Len(results) THEN Returns(acc)
    ELSE LET sale == results[i]
             income_value == IncomeValue(sale.income)
             monthly == InMonthlyWindow(sale.createdAt, thirty_days_ago)
         IN  IF income_value.exc # "none" THEN Raises(income_value.exc, acc)
             ELSE IF monthly.exc # "none" THEN Raises(monthly.exc, acc)
             ELSE SumSales(results, i + 1,
                      SalesData(acc.total_sales_amount + income_value.val,
                                acc.total_sales_count + 1,
                                acc.monthly_sales_amount
                                    + (IF monthly.val THEN income_value.val ELSE 0),
                                acc.monthly_sales_count + (IF monthly.val THEN 1 ELSE 0),
                                TRUE),
                      thirty_days_ago)

\* the try block of _fetch_sales_data: [exc, val]
TrySalesData(response, thirty_days_ago) ==
    LET r == ExecuteQuery(response, FALSE, NilSalesQueryData)
    IN  IF r.exc # "none" THEN Raises(r.exc, SalesUnavailable)
        ELSE IF ErrorsTruthy(r.val) THEN Returns(SalesUnavailable)
        ELSE LET m == DataMember(r.val, "myself", Missing(NoMyself))
             IN  IF m.exc # "none" THEN Raises(m.exc, SalesUnavailable)
                 ELSE IF m.val.k # "val" \/ m.val.v = NoMyself THEN Returns(SalesUnavailable)
                 ELSE LET sales_batch == m.val.v.salesBatch
                      IN  CASE sales_batch.k = "null" ->
                                   Raises("AttributeError", SalesUnavailable)
                            [] sales_batch.v.results.k = "null" ->
                                   Raises("TypeError", SalesUnavailable)
                            [] sales_batch.v.results.k = "missing" ->
                                   Returns(SalesData(0, 0, 0, 0, TRUE))
                            [] OTHER ->
                                   SumSales(sales_batch.v.results.v, 1,
                                            SalesData(0, 0, 0, 0, TRUE), thirty_days_ago)

\* (mutant of FetchSalesData) the handler returns the sums reached so far
FetchSalesData_partial(response, thirty_days_ago) ==
    LET r == TrySalesData(response, thirty_days_ago)
    IN  IF r.exc = "none" THEN r.val ELSE [r.val EXCEPT !.sales_data_available = FALSE]

\* _fetch_sales_data(): thirty_days_ago was taken before the request was sent;
\* `except Exception` turns every exception into the unavailable result
FetchSalesData(response, thirty_days_ago) ==
    LET r == TrySalesData(response, thirty_days_ago)
    IN  IF r.exc = "none" THEN r.val ELSE SalesUnavailable

(***************************************************************************)
(* Own creations.  Data object: [user]; user: [latestCreation].            *)
(***************************************************************************)
NoCreationsUser == [latestCreation |-> Missing(<<>>)]
NilCreationsQueryData == [user |-> Missing(NoCreationsUser)]

\* (mutant of TryCreationsData) the errors member of the result is not looked at
TryCreationsData_noerrcheck(response) ==
    LET r == ExecuteQuery(response, FALSE, NilCreationsQueryData)
    IN  IF r.exc # "none" THEN Raises(r.exc, DefaultCreationData)
        ELSE LET m == DataMember(r.val, "user", Missing(NoCreationsUser))
             IN  IF m.exc # "none" THEN Raises(m.exc, DefaultCreationData)
                 ELSE IF m.val.k # "val" \/ m.val.v = NoCreationsUser
                      THEN Returns(DefaultCreationData)
                 ELSE ParseCreation(m.val.v.latestCreation)

\* the try block of _fetch_creations_data: [exc, val |-> latest]
TryCreationsData(response) ==
    LET r == ExecuteQuery(response, FALSE, NilCreationsQueryData)
    IN  IF r.exc # "none" THEN Raises(r.exc, DefaultCreationData)
        ELSE IF ErrorsTruthy(r.val) THEN Returns(DefaultCreationData)
        ELSE LET m == DataMember(r.val, "user", Missing(NoCreationsUser))
             IN  IF m.exc # "none" THEN Raises(m.exc, DefaultCreationData)
                 ELSE IF m.val.k # "val" \/ m.val.v = NoCreationsUser
                      THEN Returns(DefaultCreationData)
                 ELSE ParseCreation(m.val.v.latestCreation)

\* (mutant of FetchCreationsData) top_downloaded is left at its default
FetchCreationsData_default(response) ==
    LET r == TryCreationsData(response)
        latest == r.val
    IN  IF r.exc = "none" THEN <<latest, DefaultCreationData>>
        ELSE <<DefaultCreationData, DefaultCreationData>>

\* _fetch_creations_data(): <<latest, top_downloaded>>
FetchCreationsData(response) ==
    LET r == TryCreationsData(response)
        latest == r.val
        top_downloaded == latest
    IN  IF r.exc = "none" THEN <<latest, top_downloaded>>
        ELSE <<DefaultCreationData, DefaultCreationData>>

(***************************************************************************)
(* Profile.  Data object: [user]; user: [nick, followersCount,             *)
(* followeesCount, creationsCount].                                        *)
(***************************************************************************)
ProfileUser(nick, followers, followees, creations) ==
    [nick |-> nick, followersCount |-> followers, followeesCount |-> followees,
     creationsCount |-> creations]
NoProfileUser == ProfileUser(Missing(""), Missing(0), Missing(0), Missing(0))
NilProfileQueryData == [user |-> Missing(NoProfileUser)]

\* lines 485-494 of _async_update_data: [exc, val |-> user_data]
FetchProfile(response) ==
    LET r == ExecuteQuery(response, TRUE, NilProfileQueryData)
    IN  IF r.exc # "none" THEN Raises(r.exc, NoProfileUser)
        ELSE LET m == DataMember(r.val, "user", Missing(NoProfileUser))
             IN  IF m.exc # "none" THEN Raises(m.exc, NoProfileUser)
                 ELSE IF m.val.k # "val" THEN Raises("UpdateFailed", NoProfileUser)
                 ELSE Returns(m.val.v)

\* user_data.get("nick", self._username)
UsernameOf(user_data, username) ==
    CASE user_data.nick.k = "missing" -> Some(username)
      [] user_data.nick.k = "null" -> None
      [] OTHER -> Some(user_data.nick.v)

\* (mutant of BuildSnapshot) followers and followees change places
BuildSnapshot_swapped(user_data, username, sales, latest_creation, top_downloaded, tracked_creations) ==
    Cults3DData(UsernameOf(user_data, username),
                CountOrZero(user_data.followeesCount),
                CountOrZero(user_data.followersCount),
                CountOrZero(user_data.creationsCount),
                sales.total_sales_amount, sales.total_sales_count,
                sales.monthly_sales_amount, sales.monthly_sales_count,
                sales.sales_data_available,
                latest_creation, top_downloaded, tracked_creations)

\* the return statement of _async_update_data
BuildSnapshot(user_data, username, sales, latest_creation, top_downloaded, tracked_creations) ==
    Cults3DData(UsernameOf(user_data, username),
                CountOrZero(user_data.followersCount),
                CountOrZero(user_data.followeesCount),
                CountOrZero(user_data.creationsCount),
                sales.total_sales_amount, sales.total_sales_count,
                sales.monthly_sales_amount, sales.monthly_sales_count,
                sales.sales_data_available,
                latest_creation, top_downloaded, tracked_creations)

(***************************************************************************)
(* The responses the upstream may give to each query of a cycle.           *)
(***************************************************************************)
Username == "maker"
Slugs == {"widget-x", "gear-y"}
Clock0 == ThirtyDays + 1

NoErrors == Missing(<<>>)
SomeErrors == Val(<<"Field does not exist">>)

Transport(nil) ==
    {Http(401, NullBody(nil)), Http(403, NullBody(nil)), Http(500, NullBody(nil)),
     Fault("ClientError", 0, nil), Fault("TimeoutError", 0, nil)}

ProfileUsers ==
    {ProfileUser(Val("Maker"), Val(7), Val(3), Val(2)),
     ProfileUser(Null(""), Null(0), Missing(0), Val(0)),
     ProfileUser(Missing(""), Missing(0), Val(4), Null(0))}
ProfileResponses ==
    Transport(NilProfileQueryData)
    \cup {Http(200, Body(SomeErrors, Null(NilProfileQueryData))),
          Http(200, Body(NoErrors, Null(NilProfileQueryData))),
          Http(200, Body(NoErrors, Missing(NilProfileQueryData))),
          Http(200, Body(NoErrors, Val([user |-> Null(NoProfileUser)])))}
    \cup {Http(200, Body(NoErrors, Val([user |-> Val(u)]))) : u \in ProfileUsers}

OwnCreation ==
    CreationObj(Val("Bracket"), Val(<<"/en/bracket">>), Val("img"), Val(5), Null(0),
                Missing(0), Val(Ts("zulu", 1)), Missing(NoNick))
CreationsBody(list) == Body(NoErrors, Val([user |-> Val([latestCreation |-> list])]))
CreationsResponses ==
    {Http(401, NullBody(NilCreationsQueryData)), Http(500, NullBody(NilCreationsQueryData)),
     Http(200, CreationsBody(Val(<<OwnCreation>>)))}

SalesBody(myself) == Body(NoErrors, Val([myself |-> myself]))
SalesResults(results) == SalesBody(Val([salesBatch |-> Val([results |-> results])]))
RecentSale == Sale(Val([value |-> Val(Amount(4))]), Val(Ts("zulu", 1)))
SalesResponses ==
    {Http(401, NullBody(NilSalesQueryData)), Http(500, NullBody(NilSalesQueryData)),
     Http(200, SalesResults(Val(<<>>))),
     Http(200, SalesResults(Val(<<RecentSale>>)))}

TrackedCreation ==
    CreationObj(Val("Widget"), Val(<<"http", "s://cults3d.com/en/widget">>), Null(""),
                Val(9), Val(4), Val(1), Val(Ts("zulu", 1)), Val([nick |-> Val("other")]))
TrackedBody(creation) == Body(NoErrors, Val([creation |-> creation]))
TrackedResponses ==
    {Http(401, NullBody(NilCreationQueryData)), Http(500, NullBody(NilCreationQueryData)),
     Http(200, Body(NoErrors, Null(NilCreationQueryData))),
     Http(200, TrackedBody(Null(EmptyCreationObj))),
     Http(200, TrackedBody(Val(TrackedCreation)))}

(***************************************************************************)
(* State.                                                                  *)
(*  upstream the responses the Cults3D API may give to each of the four    *)
(*           queries, and the inputs a user may submit to the options      *)
(*           form; it never changes                                        *)
(*  data     coordinator.data: the published snapshot (None before the     *)
(*           first successful cycle)                                       *)
(*  options  config_entry.options[CONF_TRACKED_CREATIONS]                  *)
(*  clock    the wall clock, in days: it does not advance during the few   *)
(*           cycles of a run                                               *)
(*  pc       where _async_update_data is suspended: "idle" (no cycle),     *)
(*           "profile", "creations", "sales", "tracked" (awaiting the      *)
(*           response to that query)                                       *)
(*  user_data .. tracked_creations, slugs, idx                             *)
(*           the local variables of the cycle in flight; slugs is the list *)
(*           the for loop iterates and idx the position in it              *)
(*  outcome  how the last finished cycle ended and where                   *)
(*  log      the responses received by the cycle in flight (or by the last *)
(*           finished one), per query; for a tracked query with its slug   *)
(*  cycles   the number of cycles started, which bounds the model          *)
(*  raise_on_error, result                                                 *)
(*           the strict flag and the outcome [exc, val] of the last call   *)
(*           of _async_execute_query (of the call in flight, in the        *)
(*           specification of the client)                                  *)
(*  url_or_slug, extracted                                                 *)
(*           the argument and the value of extract_slug_from_url; in the   *)
(*           options flow, the submitted creation_url and the slug taken   *)
(*           from it                                                       *)
(*  user_input, errors                                                     *)
(*           the creation_url submitted to the add step of the options     *)
(*           flow and errors["base"] of the step                           *)
(*  entry    the config entry during async_setup_entry: how far the setup  *)
(*           got (state) and whether runtime_data is set, the platforms    *)
(*           are forwarded and the options listener is registered          *)
(*  started_with                                                           *)
(*           (history) the option list as it was when the cycle in flight  *)
(*           (or the last finished one) started                            *)
(***************************************************************************)
VARIABLES upstream, data, options, clock, pc, user_data, latest_creation, top_downloaded,
          thirty_days_ago, sales, slugs, idx, tracked_creations, outcome, log,
          cycles, raise_on_error, result, url_or_slug, extracted, entry, started_with,
          user_input, errors

locals == <<user_data, latest_creation, top_downloaded, thirty_days_ago, sales,
            slugs, idx, tracked_creations>>
vars == <<upstream, data, options, clock, pc, user_data, latest_creation, top_downloaded,
          thirty_days_ago, sales, slugs, idx, tracked_creations, outcome, log,
          cycles, raise_on_error, result, url_or_slug, extracted, entry, started_with,
          user_input, errors>>

\* the form of the options flow, which no step of a cycle touches
form == <<user_input, url_or_slug, extracted, errors>>

\* no call of _async_execute_query has finished yet
NoResult == Raises("pending", NullBody(NilProfileQueryData))

\* the config entry: state is "setup" while async_setup_entry runs, "loaded"
\* once it has returned True, else the exception it raised
Entry(state, runtime_data, platforms, listener) == [state |-> state, runtime_data |-> runtime_data, platforms |-> platforms, listener |-> listener]
Loaded == Entry("loaded", TRUE, TRUE, TRUE)

\* errors = {}: the step reported no error
NoErrorKey == ""

EmptyLog == [profile |-> <<>>, creations |-> <<>>, sales |-> <<>>, tracked |-> <<>>]
Outcome(kind, at) == [kind |-> kind, at |-> at]

\* duplicate-free lists of slugs
TrackedLists ==
    {l \in UNION {[1..n -> Slugs] : n \in 0..MaxTracked} :
        \A i, j \in 1..Len(l) : l[i] = l[j] => i = j}

NoLocals ==
    /\ user_data' = NoProfileUser
    /\ latest_creation' = DefaultCreationData
    /\ top_downloaded' = DefaultCreationData
    /\ thirty_days_ago' = DateTime(0, TRUE)
    /\ sales' = SalesUnavailable
    /\ slugs' = <<>>
    /\ idx' = 0
    /\ tracked_creations' = EmptyDict

Upstream(profile, creations, sales_, tracked) ==
    [profile |-> profile, creations |-> creations, sales |-> sales_, tracked |-> tracked,
     form |-> {}]

Init ==
    /\ upstream = Upstream(ProfileResponses, CreationsResponses, SalesResponses,
                           TrackedResponses)
    /\ data = None
    /\ options \in TrackedLists
    /\ clock = Clock0
    /\ pc = "idle"
    /\ user_data = NoProfileUser
    /\ latest_creation = DefaultCreationData
    /\ top_downloaded = DefaultCreationData
    /\ thirty_days_ago = DateTime(0, TRUE)
    /\ sales = SalesUnavailable
    /\ slugs = <<>>
    /\ idx = 0
    /\ tracked_creations = EmptyDict
    /\ outcome = Outcome("none", "idle")
    /\ log = EmptyLog
    /\ cycles = 0
    /\ raise_on_error = TRUE
    /\ result = NoResult
    /\ url_or_slug = <<>>
    /\ extracted = <<>>
    /\ entry = Loaded
    /\ started_with = options
    /\ user_input = <<>>
    /\ errors = NoErrorKey

\* The caller of _async_update_data (DataUpdateCoordinator): the snapshot the
\* cycle returns becomes coordinator.data.
Publish(snapshot) ==
    /\ data' = Some(snapshot)
    /\ outcome' = Outcome("published", "merge")
    /\ pc' = "idle"
    /\ NoLocals

\* (mutant of Fail) a failed cycle blanks the published snapshot
Fail_blanks(e) ==
    /\ data' = None
    /\ outcome' = Outcome(e, pc)
    /\ pc' = "idle"
    /\ NoLocals

\* The cycle raised e while suspended at pc: coordinator.data is kept.
Fail(e) ==
    /\ data' = data
    /\ outcome' = Outcome(e, pc)
    /\ pc' = "idle"
    /\ NoLocals

\* A refresh is requested while no cycle is in flight: the profile query is sent.
StartCycle ==
    /\ pc = "idle"
    /\ cycles < MaxCycles
    /\ cycles' = cycles + 1
    /\ pc' = "profile"
    /\ log' = EmptyLog
    /\ outcome' = Outcome("none", "idle")
    /\ NoLocals
    /\ raise_on_error' = TRUE
    /\ result' = NoResult
    /\ started_with' = options
    /\ UNCHANGED <<upstream, data, options, clock, form, entry>>

\* (mutant of RecvProfile) the cycle goes on to the optional queries when the
\* profile response carries no user
RecvProfile_ungated ==
    /\ pc = "profile"
    /\ \E response \in upstream.profile :
         LET r == FetchProfile(response)
         IN  /\ log' = [log EXCEPT !.profile = Append(@, response)]
             /\ raise_on_error' = TRUE
             /\ result' = ExecuteQuery(response, TRUE, NilProfileQueryData)
             /\ IF r.exc \notin {"none", "UpdateFailed"} THEN Fail(r.exc)
                ELSE /\ user_data' = r.val
                     /\ pc' = "creations"
                     /\ UNCHANGED <<data, outcome, latest_creation, top_downloaded,
                                    thirty_days_ago, sales, slugs, idx, tracked_creations>>
    /\ UNCHANGED <<upstream, options, clock, cycles, form, entry, started_with>>

\* The profile response arrives (lines 485-499); the creations query is sent.
RecvProfile ==
    /\ pc = "profile"
    /\ \E response \in upstream.profile :
         LET r == FetchProfile(response)
         IN  /\ log' = [log EXCEPT !.profile = Append(@, response)]
             /\ raise_on_error' = TRUE
             /\ result' = ExecuteQuery(response, TRUE, NilProfileQueryData)
             /\ IF r.exc # "none" THEN Fail(r.exc)
                ELSE /\ user_data' = r.val
                     /\ pc' = "creations"
                     /\ UNCHANGED <<data, outcome, latest_creation, top_downloaded,
                                    thirty_days_ago, sales, slugs, idx, tracked_creations>>
    /\ UNCHANGED <<upstream, options, clock, cycles, form, entry, started_with>>

\* The creations response arrives (lines 499-404); _fetch_sales_data takes
\* thirty_days_ago and sends the sales query.
RecvCreations ==
    /\ pc = "creations"
    /\ \E response \in upstream.creations :
         LET r == FetchCreationsData(response)
         IN  /\ log' = [log EXCEPT !.creations = Append(@, response)]
             /\ raise_on_error' = FALSE
             /\ result' = ExecuteQuery(response, FALSE, NilCreationsQueryData)
             /\ latest_creation' = r[1]
             /\ top_downloaded' = r[2]
    /\ thirty_days_ago' = DtPlus(UtcNow(clock), 0 - ThirtyDays)
    /\ pc' = "sales"
    /\ UNCHANGED <<upstream, data, options, clock, user_data, sales, slugs, idx,
                   tracked_creations, outcome, cycles, form, entry, started_with>>

\* (mutant of Return) an unavailable sales result blanks the creation fields
Return_coupled(sales_, tracked_) ==
    Publish(BuildSnapshot(user_data, Username, sales_,
                          IF sales_.sales_data_available THEN latest_creation
                          ELSE DefaultCreationData,
                          top_downloaded, tracked_))

\* The return statement of _async_update_data, with the locals as given.
Return(sales_, tracked_) ==
    Publish(BuildSnapshot(user_data, Username, sales_, latest_creation, top_downloaded,
                          tracked_))

\* The sales response arrives (lines 404-513); the loop over the tracked slugs
\* starts: it reads the option list and sends the first tracked query, or the
\* cycle returns when the list is empty.
RecvSales ==
    /\ pc = "sales"
    /\ \E response \in upstream.sales :
         LET s == FetchSalesData(response, thirty_days_ago)
         IN  /\ log' = [log EXCEPT !.sales = Append(@, response)]
             /\ raise_on_error' = FALSE
             /\ result' = ExecuteQuery(response, FALSE, NilSalesQueryData)
             /\ IF options = <<>> THEN Return(s, EmptyDict)
                ELSE /\ sales' = s
                     /\ slugs' = options
                     /\ idx' = 1
                     /\ pc' = "tracked"
                     /\ UNCHANGED <<data, outcome, user_data, latest_creation,
                                    top_downloaded, thirty_days_ago, tracked_creations>>
    /\ UNCHANGED <<upstream, options, clock, cycles, form, entry, started_with>>

\* (mutant of RecvTracked) a tracked query that failed without an auth signal
\* is sent again
RecvTracked_retry ==
    /\ pc = "tracked"
    /\ \E response \in upstream.tracked :
         LET slug == slugs[idx]
             r == FetchTrackedCreation(response, slug, clock)
             tracked == DictSet(tracked_creations, slug, r.val)
         IN  /\ log' = [log EXCEPT !.tracked = Append(@, [slug |-> slug, response |-> response])]
             /\ raise_on_error' = TRUE
             /\ result' = ExecuteQuery(response, TRUE, NilCreationQueryData)
             /\ IF r.exc # "none" THEN Fail(r.exc)
                ELSE IF response.kind = "http" /\ response.status = 500 /\ Len(log.tracked) < idx
                THEN UNCHANGED <<data, outcome, pc, user_data, latest_creation, top_downloaded,
                                 thirty_days_ago, sales, slugs, idx, tracked_creations>>
                ELSE IF idx = Len(slugs) THEN Return(sales, tracked)
                ELSE /\ tracked_creations' = tracked
                     /\ idx' = idx + 1
                     /\ UNCHANGED <<data, outcome, pc, user_data, latest_creation,
                                    top_downloaded, thirty_days_ago, sales, slugs>>
    /\ UNCHANGED <<upstream, options, clock, cycles, form, entry, started_with>>

\* The response to the query of slugs[idx] arrives (lines 513-529).
RecvTracked ==
    /\ pc = "tracked"
    /\ \E response \in upstream.tracked :
         LET slug == slugs[idx]
             r == FetchTrackedCreation(response, slug, clock)
             tracked == DictSet(tracked_creations, slug, r.val)
         IN  /\ log' = [log EXCEPT !.tracked = Append(@, [slug |-> slug, response |-> response])]
             /\ raise_on_error' = TRUE
             /\ result' = ExecuteQuery(response, TRUE, NilCreationQueryData)
             /\ IF r.exc # "none" THEN Fail(r.exc)
                ELSE IF idx = Len(slugs) THEN Return(sales, tracked)
                ELSE /\ tracked_creations' = tracked
                     /\ idx' = idx + 1
                     /\ UNCHANGED <<data, outcome, pc, user_data, latest_creation,
                                    top_downloaded, thirty_days_ago, sales, slugs>>
    /\ UNCHANGED <<upstream, options, clock, cycles, form, entry, started_with>>

\* The task running the cycle is cancelled while it awaits a response:
\* CancelledError is no Exception, so no handler of the cycle catches it.
Cancel ==
    /\ pc # "idle"
    /\ Fail("CancelledError")
    /\ UNCHANGED <<upstream, options, clock, log, cycles, raise_on_error, result, form, entry, started_with>>

Next ==
    \/ StartCycle
    \/ RecvProfile
    \/ RecvCreations
    \/ RecvSales
    \/ RecvTracked
    \/ Cancel

Spec == Init /\ [][Next]_vars

(***************************************************************************)
(* The sales fetch on its own: a cycle whose profile query succeeded and   *)
(* whose creations query failed awaits the sales response, which is drawn  *)
(* from every shape of response and of sale record.                        *)
(***************************************************************************)
MakerUser == ProfileUser(Val("Maker"), Val(7), Val(3), Val(2))

SaleRecords ==
    {Sale(Val([value |-> Val(Amount(4))]), Val(Ts("zulu", 1))),
     Sale(Val([value |-> Val(Amount(3))]), Val(Ts("offset", 2))),
     Sale(Val([value |-> Val(Amount(5))]), Val(Ts("zulu", 0))),
     Sale(Missing(NoIncome), Val(Ts("zulu", 2))),
     Sale(Val([value |-> Null(Amount(0))]), Missing(NoTs)),
     Sale(Null(NoIncome), Null(NoTs)),
     Sale(Val([value |-> Val(Amount(2))]), Val(Ts("bad", 0))),
     Sale(Val([value |-> Val(Amount(6))]), Val(Ts("naive", 2))),
     Sale(Val([value |-> Val(BadAmount)]), Val(Ts("zulu", 2))),
     Sale(Val([value |-> Val(Amount(1))]), Val(Ts("nonstring", 0))),
     Sale(Val([value |-> Val(Amount(0 - 5))]), Val(Ts("zulu", 0)))}
SaleLists == UNION {[1..n -> SaleRecords] : n \in 0..MaxSales}
AllSalesResponses ==
    Transport(NilSalesQueryData)
    \cup {Fault("ClientResponseError", 403, NilSalesQueryData),
          Fault("ClientResponseError", 200, NilSalesQueryData),
          Http(200, NullBody(NilSalesQueryData)),
          Http(200, Body(SomeErrors, Null(NilSalesQueryData))),
          Http(200, Body(NoErrors, Null(NilSalesQueryData))),
          Http(200, Body(NoErrors, Missing(NilSalesQueryData))),
          Http(200, SalesBody(Null(NoMyself))),
          Http(200, SalesBody(Val(NoMyself))),
          Http(200, SalesBody(Val([salesBatch |-> Null(NoSalesBatch)]))),
          Http(200, SalesBody(Val([salesBatch |-> Val(NoSalesBatch)]))),
          Http(200, SalesResults(Null(<<>>)))}
    \cup {Http(200, SalesResults(Val(l))) : l \in SaleLists}

InitSales ==
    /\ upstream = Upstream({}, {}, AllSalesResponses, {})
    /\ data = None
    /\ options = <<>>
    /\ clock \in Clock0..(Clock0 + MaxClock)
    /\ pc = "sales"
    /\ user_data = MakerUser
    /\ latest_creation = DefaultCreationData
    /\ top_downloaded = DefaultCreationData
    /\ thirty_days_ago = DtPlus(UtcNow(clock), 0 - ThirtyDays)
    /\ sales = SalesUnavailable
    /\ slugs = <<>>
    /\ idx = 0
    /\ tracked_creations = EmptyDict
    /\ outcome = Outcome("none", "idle")
    /\ log = [EmptyLog EXCEPT
                 !.profile = <<Http(200, Body(NoErrors, Val([user |-> Val(MakerUser)])))>>,
                 !.creations = <<Http(500, NullBody(NilCreationsQueryData))>>]
    /\ cycles = 1
    /\ raise_on_error = TRUE
    /\ result = NoResult
    /\ url_or_slug = <<>>
    /\ extracted = <<>>
    /\ entry = Loaded
    /\ started_with = options
    /\ user_input = <<>>
    /\ errors = NoErrorKey

NextSales == RecvSales

SpecSales == InitSales /\ [][NextSales]_vars

(***************************************************************************)
(* The tracked fetches on their own: a cycle whose profile query           *)
(* succeeded and whose creations and sales queries failed starts the loop  *)
(* over a non-empty list of slugs; each response is drawn from every shape *)
(* of response and of creation object.                                     *)
(***************************************************************************)
TrackedObjects ==
    {TrackedCreation,
     CreationObj(Val("Gear"), Val(<<"/en/gear">>), Val("img"), Null(0), Missing(0), Val(2),
                 Val(Ts("offset", 2)), Null(NoNick)),
     CreationObj(Null(""), Val(<<>>), Missing(""), Val(1), Val(0), Val(0),
                 Val(Ts("naive", 2)), Val([nick |-> Null("")])),
     CreationObj(Val("Old"), Missing(<<>>), Val("img"), Val(3), Val(3), Val(3),
                 Val(Ts("zulu", 0)), Val(NoNick)),
     CreationObj(Val("Bad"), Null(<<>>), Val("img"), Val(1), Val(1), Val(1),
                 Val(Ts("bad", 0)), Missing(NoNick)),
     CreationObj(Val("Blank"), Val(<<"ftp://mirror/blank">>), Val("img"), Val(1), Val(1),
                 Val(1), Val(Ts("empty", 0)), Missing(NoNick)),
     CreationObj(Val("Undated"), Val(<<"http", "://cults3d.com/en/undated">>), Val("img"),
                 Val(1), Val(1), Val(1), Null(NoTs), Missing(NoNick)),
     CreationObj(Val("Number"), Val(<<"/en/number">>), Val("img"), Val(1), Val(1), Val(1),
                 Val(Ts("nonstring", 0)), Missing(NoNick)),
     EmptyCreationObj}
AllTrackedResponses ==
    Transport(NilCreationQueryData)
    \cup {Fault("ClientResponseError", 403, NilCreationQueryData),
          Fault("ClientResponseError", 200, NilCreationQueryData),
          Http(200, NullBody(NilCreationQueryData)),
          Http(200, Body(SomeErrors, Null(NilCreationQueryData))),
          Http(200, Body(NoErrors, Null(NilCreationQueryData))),
          Http(200, Body(NoErrors, Missing(NilCreationQueryData))),
          Http(200, TrackedBody(Null(EmptyCreationObj))),
          Http(200, TrackedBody(Missing(EmptyCreationObj)))}
    \cup {Http(200, TrackedBody(Val(c))) : c \in TrackedObjects}

InitTracked ==
    /\ upstream = Upstream({}, {}, {}, AllTrackedResponses)
    /\ data = None
    /\ options \in TrackedLists \ {<<>>}
    /\ clock \in Clock0..(Clock0 + MaxClock)
    /\ pc = "tracked"
    /\ user_data = MakerUser
    /\ latest_creation = DefaultCreationData
    /\ top_downloaded = DefaultCreationData
    /\ thirty_days_ago = DtPlus(UtcNow(clock), 0 - ThirtyDays)
    /\ sales = SalesUnavailable
    /\ slugs = options
    /\ idx = 1
    /\ tracked_creations = EmptyDict
    /\ outcome = Outcome("none", "idle")
    /\ log = [EmptyLog EXCEPT
                 !.profile = <<Http(200, Body(NoErrors, Val([user |-> Val(MakerUser)])))>>,
                 !.creations = <<Http(500, NullBody(NilCreationsQueryData))>>,
                 !.sales = <<Http(500, NullBody(NilSalesQueryData))>>]
    /\ cycles = 1
    /\ raise_on_error = TRUE
    /\ result = NoResult
    /\ url_or_slug = <<>>
    /\ extracted = <<>>
    /\ entry = Loaded
    /\ started_with = options
    /\ user_input = <<>>
    /\ errors = NoErrorKey

NextTracked == RecvTracked

SpecTracked == InitTracked /\ [][NextTracked]_vars

(***************************************************************************)
(* Credential validation.  The validation query asks for user { nick }:    *)
(* its data object is [user] like the one of the profile query.            *)
(***************************************************************************)
\* Cults3DCoordinator.async_validate_credentials(): [exc, val |-> valid]
ValidateCredentials(response) ==
    LET r == ExecuteQuery(response, TRUE, NilProfileQueryData)
    IN  CASE r.exc \in {"ConfigEntryAuthFailed", "UpdateFailed"} -> Returns(FALSE)
          [] r.exc # "none" -> Raises(r.exc, FALSE)
          [] OTHER ->
                 LET m == DataMember(r.val, "user", Missing(NoProfileUser))
                 IN  IF m.exc # "none" THEN Raises(m.exc, FALSE)
                     ELSE Returns(m.val.k = "val")

\* the try block of config_flow._validate_credentials: [exc, val |-> valid]
TryFlowValidate(response) ==
    IF response.kind # "http" THEN Raises(response.kind, FALSE)
    ELSE IF response.status # 200 THEN Returns(FALSE)
    ELSE IF response.body.null THEN Raises("TypeError", FALSE)
    ELSE IF ErrorsTruthy(response.body) THEN Returns(FALSE)
    ELSE LET m == DataMember(response.body, "user", Missing(NoProfileUser))
         IN  IF m.exc # "none" THEN Raises(m.exc, FALSE)
             ELSE Returns(m.val.k = "val")

\* config_flow._validate_credentials(): `except Exception: return False`
FlowValidateCredentials(response) ==
    LET r == TryFlowValidate(response)
    IN  IF r.exc = "none" THEN r.val ELSE FALSE

(***************************************************************************)
(* The client and the two credential checks on their own: one request is   *)
(* in flight, made by _async_execute_query with either strict flag         *)
(* ("query"), by async_validate_credentials ("validate") or by the         *)
(* wizard's _validate_credentials ("flow_validate"); its response is drawn *)
(* from every status, fault and shape of body.                             *)
(***************************************************************************)
ErrorsMembers == {NoErrors, Null(<<>>), Val(<<>>), SomeErrors}
UserDataMembers ==
    {Null(NilProfileQueryData), Missing(NilProfileQueryData),
     Val([user |-> Null(NoProfileUser)]), Val([user |-> Missing(NoProfileUser)]),
     Val([user |-> Val(ProfileUser(Val("maker"), Missing(0), Missing(0), Missing(0)))]),
     Val([user |-> Val(NoProfileUser)])}
ClientResponses ==
    Transport(NilProfileQueryData)
    \cup {Http(404, NullBody(NilProfileQueryData)),
          Http(200, NullBody(NilProfileQueryData)),
          Http(401, Body(NoErrors, Val([user |-> Val(MakerUser)]))),
          Http(500, Body(NoErrors, Val([user |-> Val(MakerUser)]))),
          Fault("ClientResponseError", 401, NilProfileQueryData),
          Fault("ClientResponseError", 403, NilProfileQueryData),
          Fault("ClientResponseError", 500, NilProfileQueryData),
          Fault("ClientResponseError", 200, NilProfileQueryData)}
    \cup {Http(200, Body(e, d)) : e \in ErrorsMembers, d \in UserDataMembers}

InitClient ==
    /\ upstream = Upstream(ClientResponses, {}, {}, {})
    /\ data = None
    /\ options = <<>>
    /\ clock = Clock0
    /\ pc \in {"query", "validate", "flow_validate"}
    /\ user_data = NoProfileUser
    /\ latest_creation = DefaultCreationData
    /\ top_downloaded = DefaultCreationData
    /\ thirty_days_ago = DateTime(0, TRUE)
    /\ sales = SalesUnavailable
    /\ slugs = <<>>
    /\ idx = 0
    /\ tracked_creations = EmptyDict
    /\ outcome = Outcome("none", "idle")
    /\ log = EmptyLog
    /\ cycles = 0
    /\ raise_on_error \in (IF pc = "query" THEN BOOLEAN ELSE {TRUE})
    /\ result = NoResult
    /\ url_or_slug = <<>>
    /\ extracted = <<>>
    /\ entry = Loaded
    /\ started_with = options
    /\ user_input = <<>>
    /\ errors = NoErrorKey

\* what a finished call leaves in outcome.kind
Ended(r, returned) == IF r.exc = "none" THEN returned ELSE r.exc

\* The response to a call of _async_execute_query arrives.
RecvQuery ==
    /\ pc = "query"
    /\ \E response \in upstream.profile :
         LET r == ExecuteQuery(response, raise_on_error, NilProfileQueryData)
         IN  /\ log' = [log EXCEPT !.profile = Append(@, response)]
             /\ result' = r
             /\ outcome' = Outcome(Ended(r, "returned"), "query")
    /\ pc' = "idle"
    /\ UNCHANGED <<upstream, data, options, clock, locals, cycles, raise_on_error, form, entry, started_with>>

\* The response to the query of async_validate_credentials arrives.
RecvValidation ==
    /\ pc = "validate"
    /\ \E response \in upstream.profile :
         LET v == ValidateCredentials(response)
         IN  /\ log' = [log EXCEPT !.profile = Append(@, response)]
             /\ result' = ExecuteQuery(response, TRUE, NilProfileQueryData)
             /\ outcome' = Outcome(Ended(v, IF v.val THEN "valid" ELSE "invalid"),
                                   "validate")
    /\ pc' = "idle"
    /\ UNCHANGED <<upstream, data, options, clock, locals, cycles, raise_on_error, form, entry, started_with>>

\* The response to the request of the wizard's _validate_credentials arrives.
RecvFlowValidation ==
    /\ pc = "flow_validate"
    /\ \E response \in upstream.profile :
         /\ log' = [log EXCEPT !.profile = Append(@, response)]
         /\ outcome' = Outcome(IF FlowValidateCredentials(response) THEN "valid"
                               ELSE "invalid", "flow_validate")
    /\ pc' = "idle"
    /\ UNCHANGED <<upstream, data, options, clock, locals, cycles, raise_on_error,
                   result, form, entry, started_with>>

NextClient ==
    \/ RecvQuery
    \/ RecvValidation
    \/ RecvFlowValidation

SpecClient == InitClient /\ [][NextClient]_vars

(***************************************************************************)
(* Slug extraction.  A string is a sequence of pieces; a piece is a run of *)
(* characters of one kind, so that a character class of the two patterns   *)
(* takes a piece whole or not at all:                                      *)
(*   "cults3d.com"  the host the patterns look for,                        *)
(*   "3d-model"     the directory of the long form,                        *)
(*   "/" "?" "#"    the three delimiters,                                  *)
(*   " "            a run of whitespace (no line break),                   *)
(*   word pieces    runs of letters, digits and underscores (\w),          *)
(*   other pieces   runs with further characters such as - : = .          *)
(***************************************************************************)
WordPieces == {"en", "gadget", "my", "model", "extra", "top"}
OtherPieces == {"https:", "cults3d.com", "3d-model", "widget-x", "ref=1"}
Pieces == WordPieces \cup OtherPieces \cup {"/", "?", "#", " "}
\* [^/]  and  [^/?#]
NotSlashPieces == Pieces \ {"/"}
SegmentPieces == Pieces \ {"/", "?", "#"}

\* the piece at position i, "" past the end
At(s, i) == IF i \in 1..Len(s) THEN s[i] ELSE ""
\* the last position of the longest run of pieces of cls that starts at i
\* (i - 1 when the piece at i is not of cls): what cls+ takes greedily
RunEnd(s, i, cls) ==
    CHOOSE j \in (i - 1)..Len(s) :
        /\ \A k \in i..j : s[k] \in cls
        /\ At(s, j + 1) \notin cls

\* cults3d\.com/\w+/  matched with the host at position i: the position after
\* the second slash, 0 when there is no match
AfterLanguage(s, i) ==
    LET w == RunEnd(s, i + 2, WordPieces)
    IN  IF At(s, i) = "cults3d.com" /\ At(s, i + 1) = "/" /\ w >= i + 2
           /\ At(s, w + 1) = "/"
        THEN w + 2 ELSE 0

\* cults3d\.com/\w+/3d-model/[^/]+/([^/?#]+) matched with the host at i:
\* <<first, last>> positions of group 1, <<>> when there is no match
LongMatch(s, i) ==
    LET a == AfterLanguage(s, i)
        c == RunEnd(s, a + 2, NotSlashPieces)
        g == RunEnd(s, c + 2, SegmentPieces)
    IN  IF a # 0 /\ At(s, a) = "3d-model" /\ At(s, a + 1) = "/" /\ c >= a + 2
           /\ At(s, c + 1) = "/" /\ g >= c + 2
        THEN <<c + 2, g>> ELSE <<>>

\* cults3d\.com/\w+/([^/?#]+)$ matched with the host at i
ShortMatch(s, i) ==
    LET a == AfterLanguage(s, i)
        g == RunEnd(s, a, SegmentPieces)
    IN  IF a # 0 /\ g >= a /\ g = Len(s) THEN <<a, g>> ELSE <<>>

\* str.strip()
Strip(s) ==
    LET kept == {i \in 1..Len(s) : s[i] # " "}
    IN  IF kept = {} THEN <<>>
        ELSE SubSeq(s, CHOOSE i \in kept : \A j \in kept : i <= j,
                       CHOOSE i \in kept : \A j \in kept : i >= j)

\* extract_slug_from_url(url_or_slug): re.search takes the leftmost match
ExtractSlugFromUrl(s) ==
    LET long == {i \in 1..Len(s) : LongMatch(s, i) # <<>>}
        short == {i \in 1..Len(s) : ShortMatch(s, i) # <<>>}
        first(set) == CHOOSE i \in set : \A j \in set : i <= j
    IN  IF long # {}
        THEN SubSeq(s, LongMatch(s, first(long))[1], LongMatch(s, first(long))[2])
        ELSE IF short # {}
        THEN SubSeq(s, ShortMatch(s, first(short))[1], ShortMatch(s, first(short))[2])
        ELSE Strip(s)

(***************************************************************************)
(* Slug extraction on its own: the function is applied to one string,      *)
(* drawn from bare slugs and URLs of both forms, with and without          *)
(* whitespace, query, fragment and further path.                           *)
(***************************************************************************)
ShortBase == <<"https:", "/", "/", "cults3d.com", "/", "en", "/">>
LongBase == ShortBase \o <<"3d-model", "/", "gadget", "/">>
SlugSegments == {<<"widget-x">>, <<"my", " ", "model">>}
SlugInputs ==
    {lead \o base \o seg \o tail :
        lead \in {<<>>, <<" ">>},
        base \in {<<>>, ShortBase, LongBase},
        seg \in SlugSegments,
        tail \in {<<>>, <<" ">>, <<"?", "ref=1">>, <<"#", "top">>, <<"/">>, <<"/", "extra">>}}

InitSlug ==
    /\ upstream = Upstream({}, {}, {}, {})
    /\ data = None
    /\ options = <<>>
    /\ clock = Clock0
    /\ pc = "extract"
    /\ user_data = NoProfileUser
    /\ latest_creation = DefaultCreationData
    /\ top_downloaded = DefaultCreationData
    /\ thirty_days_ago = DateTime(0, TRUE)
    /\ sales = SalesUnavailable
    /\ slugs = <<>>
    /\ idx = 0
    /\ tracked_creations = EmptyDict
    /\ outcome = Outcome("none", "idle")
    /\ log = EmptyLog
    /\ cycles = 0
    /\ raise_on_error = TRUE
    /\ result = NoResult
    /\ url_or_slug \in SlugInputs
    /\ extracted = <<>>
    /\ entry = Loaded
    /\ started_with = options
    /\ user_input = <<>>
    /\ errors = NoErrorKey

\* extract_slug_from_url(url_or_slug) returns.
ExtractSlug ==
    /\ pc = "extract"
    /\ extracted' = ExtractSlugFromUrl(url_or_slug)
    /\ outcome' = Outcome("returned", "extract")
    /\ pc' = "idle"
    /\ UNCHANGED <<upstream, data, options, clock, locals, log, cycles, raise_on_error,
                   result, user_input, url_or_slug, errors, entry, started_with>>

NextSlug == ExtractSlug

SpecSlug == InitSlug /\ [][NextSlug]_vars

(***************************************************************************)
(* The creations fetch on its own: a cycle whose profile query succeeded   *)
(* awaits the creations response, which is drawn from every shape of       *)
(* response and from lists of up to MaxListed creation objects; the sales  *)
(* fetch follows and, the tracked list being empty, the cycle returns.     *)
(***************************************************************************)
CreationLists == UNION {[1..n -> TrackedObjects] : n \in 1..MaxListed}
AllCreationsResponses ==
    Transport(NilCreationsQueryData)
    \cup {Fault("ClientResponseError", 403, NilCreationsQueryData),
          Fault("ClientResponseError", 200, NilCreationsQueryData),
          Http(200, NullBody(NilCreationsQueryData)),
          Http(200, Body(SomeErrors, Null(NilCreationsQueryData))),
          Http(200, Body(SomeErrors, Val([user |-> Val([latestCreation |-> Val(<<OwnCreation>>)])]))),
          Http(200, Body(NoErrors, Null(NilCreationsQueryData))),
          Http(200, Body(NoErrors, Missing(NilCreationsQueryData))),
          Http(200, Body(NoErrors, Val([user |-> Null(NoCreationsUser)]))),
          Http(200, Body(NoErrors, Val([user |-> Val(NoCreationsUser)]))),
          Http(200, CreationsBody(Null(<<>>))),
          Http(200, CreationsBody(Val(<<>>)))}
    \cup {Http(200, CreationsBody(Val(l))) : l \in CreationLists}

InitCreations ==
    /\ upstream = Upstream({}, AllCreationsResponses,
                           {Http(500, NullBody(NilSalesQueryData)),
                            Http(200, SalesResults(Val(<<RecentSale>>)))}, {})
    /\ data = None
    /\ options = <<>>
    /\ clock = Clock0
    /\ pc = "creations"
    /\ user_data = MakerUser
    /\ latest_creation = DefaultCreationData
    /\ top_downloaded = DefaultCreationData
    /\ thirty_days_ago = DateTime(0, TRUE)
    /\ sales = SalesUnavailable
    /\ slugs = <<>>
    /\ idx = 0
    /\ tracked_creations = EmptyDict
    /\ outcome = Outcome("none", "idle")
    /\ log = [EmptyLog EXCEPT
                 !.profile = <<Http(200, Body(NoErrors, Val([user |-> Val(MakerUser)])))>>]
    /\ cycles = 1
    /\ raise_on_error = TRUE
    /\ result = NoResult
    /\ url_or_slug = <<>>
    /\ extracted = <<>>
    /\ entry = Loaded
    /\ started_with = options
    /\ user_input = <<>>
    /\ errors = NoErrorKey

NextCreations ==
    \/ RecvCreations
    \/ RecvSales

SpecCreations == InitCreations /\ [][NextCreations]_vars

(***************************************************************************)
(* Entry setup.  async_setup_entry builds the coordinator and awaits its   *)
(* first refresh, which is one cycle of _async_update_data; it then stores *)
(* the coordinator, awaits the forwarding of the sensor platform and       *)
(* registers the options listener.                                         *)
(***************************************************************************)
NotSetUp == Entry("setup", FALSE, FALSE, FALSE)
Stored == Entry("setup", TRUE, FALSE, FALSE)

\* async_setup_entry up to its first await: the first refresh starts and
\* sends the profile query.
BeginSetupEntry ==
    /\ entry = NotSetUp
    /\ pc = "idle"
    /\ cycles = 0
    /\ cycles' = 1
    /\ pc' = "profile"
    /\ log' = EmptyLog
    /\ outcome' = Outcome("none", "idle")
    /\ NoLocals
    /\ raise_on_error' = TRUE
    /\ result' = NoResult
    /\ started_with' = options
    /\ UNCHANGED <<upstream, data, options, clock, form, entry>>

\* (mutant of FirstRefreshDone) an auth failure is wrapped like any other error
FirstRefreshDone_wrapped ==
    /\ entry = NotSetUp
    /\ pc = "idle"
    /\ cycles = 1
    /\ entry' = CASE outcome.kind = "published" -> Stored
                  [] outcome.kind = "CancelledError" ->
                         Entry("CancelledError", FALSE, FALSE, FALSE)
                  [] OTHER -> Entry("ConfigEntryNotReady", FALSE, FALSE, FALSE)
    /\ UNCHANGED <<upstream, data, options, clock, pc, locals, outcome, log, cycles,
                   raise_on_error, result, form, started_with>>

\* The first refresh is over (lines 30-41): ConfigEntryAuthFailed is raised
\* again, every other Exception becomes ConfigEntryNotReady, a cancellation is
\* no Exception and leaves as it is; after a successful refresh the coordinator
\* is stored and the forwarding of the platforms is awaited.
FirstRefreshDone ==
    /\ entry = NotSetUp
    /\ pc = "idle"
    /\ cycles = 1
    /\ entry' = CASE outcome.kind = "published" -> Stored
                  [] outcome.kind = "ConfigEntryAuthFailed" ->
                         Entry("ConfigEntryAuthFailed", FALSE, FALSE, FALSE)
                  [] outcome.kind = "CancelledError" ->
                         Entry("CancelledError", FALSE, FALSE, FALSE)
                  [] OTHER -> Entry("ConfigEntryNotReady", FALSE, FALSE, FALSE)
    /\ UNCHANGED <<upstream, data, options, clock, pc, locals, outcome, log, cycles,
                   raise_on_error, result, form, started_with>>

\* The platforms are forwarded (lines 43-47): the options listener is
\* registered and async_setup_entry returns True.
ForwardDone ==
    /\ entry = Stored
    /\ entry' = Loaded
    /\ UNCHANGED <<upstream, data, options, clock, pc, locals, outcome, log, cycles,
                   raise_on_error, result, form, started_with>>

InitSetup ==
    /\ upstream = Upstream(ProfileResponses, CreationsResponses, SalesResponses,
                           TrackedResponses)
    /\ data = None
    /\ options \in TrackedLists
    /\ clock = Clock0
    /\ pc = "idle"
    /\ user_data = NoProfileUser
    /\ latest_creation = DefaultCreationData
    /\ top_downloaded = DefaultCreationData
    /\ thirty_days_ago = DateTime(0, TRUE)
    /\ sales = SalesUnavailable
    /\ slugs = <<>>
    /\ idx = 0
    /\ tracked_creations = EmptyDict
    /\ outcome = Outcome("none", "idle")
    /\ log = EmptyLog
    /\ cycles = 0
    /\ raise_on_error = TRUE
    /\ result = NoResult
    /\ url_or_slug = <<>>
    /\ extracted = <<>>
    /\ entry = NotSetUp
    /\ started_with = options
    /\ user_input = <<>>
    /\ errors = NoErrorKey

NextSetup ==
    \/ BeginSetupEntry
    \/ RecvProfile
    \/ RecvCreations
    \/ RecvSales
    \/ RecvTracked
    \/ Cancel
    \/ FirstRefreshDone
    \/ ForwardDone

SpecSetup == InitSetup /\ [][NextSetup]_vars

(***************************************************************************)
(* The options flow next to the refresh cycles: the add step changes the   *)
(* tracked list at any moment, also while a cycle is in flight.  Slugs are *)
(* the strings the step extracts, so a slug is a sequence of pieces here.  *)
(***************************************************************************)
\* `slug in current_tracked`
InList(x, l) == \E i \in 1..Len(l) : l[i] = x

\* (mutant of AddTrackedCreation) the step appends without looking for the slug
AddTrackedCreation_nocheck ==
    /\ \E input \in upstream.form :
         LET trimmed == Strip(input)
             slug == ExtractSlugFromUrl(trimmed)
         IN  /\ user_input' = input
             /\ url_or_slug' = trimmed
             /\ IF trimmed # <<>>
                THEN /\ extracted' = slug
                     /\ Len(options) < MaxTracked
                     /\ options' = Append(options, slug)
                     /\ errors' = NoErrorKey
                ELSE /\ extracted' = <<>>
                     /\ errors' = "invalid_url"
                     /\ options' = options
    /\ UNCHANGED <<upstream, data, clock, pc, locals, outcome, log, cycles, raise_on_error,
                   result, entry, started_with>>

\* OptionsFlowHandler.async_step_add_tracked_creation(user_input) with a
\* submitted form; the list is capped at MaxTracked entries.
AddTrackedCreation ==
    /\ \E input \in upstream.form :
         LET trimmed == Strip(input)
             slug == ExtractSlugFromUrl(trimmed)
         IN  /\ user_input' = input
             /\ url_or_slug' = trimmed
             /\ IF trimmed # <<>>
                THEN /\ extracted' = slug
                     /\ IF InList(slug, options)
                        THEN /\ errors' = "already_tracked"
                             /\ options' = options
                        ELSE /\ Len(options) < MaxTracked
                             /\ options' = Append(options, slug)
                             /\ errors' = NoErrorKey
                ELSE /\ extracted' = <<>>
                     /\ errors' = "invalid_url"
                     /\ options' = options
    /\ UNCHANGED <<upstream, data, clock, pc, locals, outcome, log, cycles, raise_on_error,
                   result, entry, started_with>>

\* what the user submits: blanks, a bare slug and URLs of both forms
FormInputs ==
    {<<" ">>, <<"widget-x">>, LongBase \o <<"widget-x">>, ShortBase \o <<"gadget", " ">>,
     LongBase \o <<"my", " ", "model">>}

InitOptions ==
    /\ upstream = [Upstream({Http(200, Body(NoErrors, Val([user |-> Val(MakerUser)])))},
                            {Http(500, NullBody(NilCreationsQueryData))},
                            {Http(500, NullBody(NilSalesQueryData))},
                            {Http(500, NullBody(NilCreationQueryData)),
                             Http(200, TrackedBody(Val(TrackedCreation)))})
                   EXCEPT !.form = FormInputs]
    /\ data = None
    /\ options \in {<<>>, << <<"widget-x">> >>}
    /\ clock = Clock0
    /\ pc = "idle"
    /\ user_data = NoProfileUser
    /\ latest_creation = DefaultCreationData
    /\ top_downloaded = DefaultCreationData
    /\ thirty_days_ago = DateTime(0, TRUE)
    /\ sales = SalesUnavailable
    /\ slugs = <<>>
    /\ idx = 0
    /\ tracked_creations = EmptyDict
    /\ outcome = Outcome("none", "idle")
    /\ log = EmptyLog
    /\ cycles = 0
    /\ raise_on_error = TRUE
    /\ result = NoResult
    /\ url_or_slug = <<>>
    /\ extracted = <<>>
    /\ entry = Loaded
    /\ started_with = options
    /\ user_input = <<>>
    /\ errors = NoErrorKey

NextOptions ==
    \/ StartCycle
    \/ RecvProfile
    \/ RecvCreations
    \/ RecvSales
    \/ RecvTracked
    \/ AddTrackedCreation

SpecOptions == InitOptions /\ [][NextOptions]_vars

(***************************************************************************)
(* Vocabulary of the properties.                                           *)
(***************************************************************************)
\* the last cycle returned a snapshot, which is the published one
Published == pc = "idle" /\ outcome.kind = "published"
Snapshot == data[1]
\* an HTTP response with status 401 or 403
IsAuthResponse(r) == r.kind = "http" /\ r.status \in {401, 403}
\* an HTTP response with a status other than 200, 401 and 403
IsNon200(r) == r.kind = "http" /\ r.status \notin {200, 401, 403}
\* a 200 response whose body is an object
IsBody(r) == r.kind = "http" /\ r.status = 200 /\ ~r.body.null
\* a 200 response whose body lists GraphQL errors
HasGraphQLErrors(r) == IsBody(r) /\ r.body.errors.k = "val" /\ r.body.errors.v # <<>>
\* a connection error of the HTTP client
IsConnectionError(r) ==
    \/ r.kind = "ClientError"
    \/ r.kind = "ClientResponseError" /\ r.status \notin {401, 403}
\* a failure without an auth signal
IsNonAuthFailure(r) == IsNon200(r) \/ HasGraphQLErrors(r) \/ IsConnectionError(r)
\* a 200 response without errors that carries a data object
HasData(r) == IsBody(r) /\ ~HasGraphQLErrors(r) /\ r.body.data.k = "val"
\* the responses of the log, of every query
LogResponses ==
    {log.profile[i] : i \in 1..Len(log.profile)}
    \cup {log.creations[i] : i \in 1..Len(log.creations)}
    \cup {log.sales[i] : i \in 1..Len(log.sales)}
    \cup {log.tracked[i].response : i \in 1..Len(log.tracked)}
AllZeroSales(snap) ==
    /\ snap.total_sales_amount = 0
    /\ snap.total_sales_count = 0
    /\ snap.monthly_sales_amount = 0
    /\ snap.monthly_sales_count = 0

TypeOK ==
    /\ pc \in {"idle", "profile", "creations", "sales", "tracked", "query", "validate",
              "flow_validate", "extract"}
    /\ raise_on_error \in BOOLEAN
    /\ Len(data) <= 1
    /\ cycles \in 0..MaxCycles

(***************************************************************************)
(* C1.  The published snapshot changes only in the step in which a cycle   *)
(* returns its snapshot: a step in which the cycle fails or is cancelled,  *)
(* and every step that leaves the cycle in flight, leaves coordinator.data *)
(* as it was.                                                              *)
(***************************************************************************)
C1_SnapshotChangesOnlyOnSuccess ==
    [][/\ data' # data => (pc # "idle" /\ pc' = "idle" /\ outcome'.kind = "published")
       /\ (pc # "idle" /\ outcome'.kind # "published") => data' = data]_vars

\* a cycle was cancelled at its last suspension point, and another failed in
\* the profile fetch, while a snapshot of an earlier cycle was published
C1_Witness ==
    /\ pc = "idle"
    /\ data # None
    /\ \/ outcome = Outcome("CancelledError", "tracked")
       \/ outcome = Outcome("UpdateFailed", "profile")

(***************************************************************************)
(* C2.  (as claimed) Once the profile fetch of a cycle has succeeded, the  *)
(* cycle, unless cancelled, publishes a snapshot whose tracked mapping has *)
(* exactly the configured slugs as keys, whatever the tracked queries      *)
(* answer.                                                                 *)
(***************************************************************************)
C2_TrackedKeysWhateverOutcomes ==
    (pc = "idle" /\ log.creations # <<>> /\ outcome.kind # "CancelledError")
        => /\ outcome.kind = "published"
           /\ DictKeys(Snapshot.tracked_creations) = {options[i] : i \in 1..Len(options)}

(***************************************************************************)
(* C3.  (as claimed) A 401 or 403 response to any query of a cycle ends    *)
(* the cycle with the authentication error: the cycle is no longer in      *)
(* flight and has published nothing.                                       *)
(***************************************************************************)
C3_AuthAlwaysFatal ==
    (\E r \in LogResponses : IsAuthResponse(r))
        => (pc = "idle" /\ outcome.kind = "ConfigEntryAuthFailed")

(***************************************************************************)
(* C4.  A 401 or 403 response to the profile query ends the cycle with     *)
(* ConfigEntryAuthFailed; a non-200 status, GraphQL errors, a connection   *)
(* error or an absent user end it with UpdateFailed; no other response to  *)
(* the profile query ends it with ConfigEntryAuthFailed.                   *)
(***************************************************************************)
\* a well-formed response without a user object (where the code finds none)
IsAbsentUser(r) ==
    /\ IsBody(r) /\ ~HasGraphQLErrors(r)
    /\ \/ r.body.data.k = "missing"
       \/ r.body.data.k = "val" /\ r.body.data.v.user.k # "val"

C4_ProfileAuthDistinguished ==
    log.profile # <<>> =>
        LET r == log.profile[1]
        IN  /\ IsAuthResponse(r) => (pc = "idle" /\ outcome = Outcome("ConfigEntryAuthFailed", "profile"))
            /\ (IsNonAuthFailure(r) \/ IsAbsentUser(r))
                   => (pc = "idle" /\ outcome = Outcome("UpdateFailed", "profile"))
            /\ (~IsAuthResponse(r) /\ pc = "idle" /\ outcome.at = "profile")
                   => outcome.kind # "ConfigEntryAuthFailed"

\* the profile query was answered 403 and the cycle ended with the auth error
C4_Witness ==
    /\ log.profile # <<>>
    /\ log.profile[1].kind = "http" /\ log.profile[1].status = 403
    /\ outcome = Outcome("ConfigEntryAuthFailed", "profile")

(***************************************************************************)
(* C5.  (as claimed) A well-formed profile response without a user object, *)
(* a body whose data member is null or missing included, ends the cycle    *)
(* with UpdateFailed.                                                      *)
(***************************************************************************)
C5_AbsentUserIsUpdateFailed ==
    (log.profile # <<>> /\ IsBody(log.profile[1]) /\ ~HasGraphQLErrors(log.profile[1])
        /\ (log.profile[1].body.data.k # "val" \/ log.profile[1].body.data.v.user.k # "val"))
        => (pc = "idle" /\ outcome = Outcome("UpdateFailed", "profile"))

(***************************************************************************)
(* C6.  In a published snapshot the creation fields are what the creations *)
(* response alone parses to, whatever the sales response was, and a sales  *)
(* response with a status other than 200, 401 and 403 gives                *)
(* sales_data_available = false and the four sales fields 0; whatever the  *)
(* creations response was, available sales count the records of the sales *)
(* response.                                                               *)
(***************************************************************************)
\* what the creations response parses to
ParsedCreation(r) ==
    IF HasData(r) /\ r.body.data.v.user.k = "val"
    THEN ParseCreation(r.body.data.v.user.v.latestCreation).val
    ELSE DefaultCreationData

C6_SalesFailureLeavesCreations ==
    Published =>
        LET rc == log.creations[1]
            rs == log.sales[1]
        IN  /\ Snapshot.latest_creation = ParsedCreation(rc)
            /\ Snapshot.top_downloaded = ParsedCreation(rc)
            /\ IsNon200(rs) => (~Snapshot.sales_data_available /\ AllZeroSales(Snapshot))
            /\ (HasData(rs) /\ Snapshot.sales_data_available) =>
                   Snapshot.total_sales_count
                       = Len(rs.body.data.v.myself.v.salesBatch.v.results.v)

\* the sales query was answered 500 and the snapshot holds the parsed creation
C6_Witness ==
    /\ Published
    /\ log.sales[1].status = 500
    /\ ~Snapshot.sales_data_available
    /\ Snapshot.latest_creation.name = Some("Bracket")
    /\ Snapshot.latest_creation.url = Some(<<"http", "s://cults3d.com", "/en/bracket">>)

(***************************************************************************)
(* C7.  In every published snapshot sales_data_available = false implies   *)
(* that the four sales fields are 0, also when the aggregation stopped at  *)
(* a malformed record after earlier records had been summed.               *)
(***************************************************************************)
C7_UnavailableMeansZero ==
    data # None => (~Snapshot.sales_data_available => AllZeroSales(Snapshot))

\* the list of the sales response
SalesResultsOf(r) == r.body.data.v.myself.v.salesBatch.v.results
\* a data tree with the myself object, its salesBatch and the list of results
HasSalesList(r) ==
    /\ HasData(r)
    /\ r.body.data.v.myself.k = "val"
    /\ r.body.data.v.myself.v.salesBatch.k = "val"
    /\ SalesResultsOf(r).k = "val"

\* a well-formed sale of 4 was summed before a record with a malformed value
C7_Witness ==
    /\ Published
    /\ HasSalesList(log.sales[1])
    /\ Len(SalesResultsOf(log.sales[1]).v) = 2
    /\ SalesResultsOf(log.sales[1]).v[1].income = Val([value |-> Val(Amount(4))])
    /\ SalesResultsOf(log.sales[1]).v[2].income = Val([value |-> Val(BadAmount)])
    /\ ~Snapshot.sales_data_available

(***************************************************************************)
(* C8.  (as claimed) For the list of sale records of a sales query that    *)
(* made the sales available: total_sales_count is the number of records,   *)
(* total_sales_amount the sum of the income values (missing or null: 0),   *)
(* and the monthly fields count and sum exactly the records whose          *)
(* createdAt is an instant at or after now minus 30 days.                  *)
(***************************************************************************)
ClaimedIncome(sale) ==
    IF sale.income.k = "val" /\ sale.income.v.value.k = "val" /\ sale.income.v.value.v.numeric
    THEN sale.income.v.value.v.n
    ELSE 0
\* createdAt is present, parses, and is at or after now - 30 days
ClaimedRecent(sale, now) ==
    /\ sale.createdAt.k = "val"
    /\ sale.createdAt.v.form \in {"zulu", "offset", "naive"}
    /\ sale.createdAt.v.t >= now - ThirtyDays
\* the sum of the incomes of the sales of l from the i-th on; only_recent
\* restricts it to the sales that are recent at now
RECURSIVE ClaimedSum(_, _, _, _)
ClaimedSum(l, i, only_recent, now) ==
    IF i > Len(l) THEN 0
    ELSE (IF only_recent => ClaimedRecent(l[i], now) THEN ClaimedIncome(l[i]) ELSE 0)
         + ClaimedSum(l, i + 1, only_recent, now)

C8_SalesAggregation ==
    (Published /\ HasSalesList(log.sales[1]) /\ Snapshot.sales_data_available) =>
        LET l == SalesResultsOf(log.sales[1]).v
        IN  /\ Snapshot.total_sales_count = Len(l)
            /\ Snapshot.total_sales_amount = ClaimedSum(l, 1, FALSE, clock)
            /\ Snapshot.monthly_sales_count
                   = Cardinality({i \in 1..Len(l) : ClaimedRecent(l[i], clock)})
            /\ Snapshot.monthly_sales_amount = ClaimedSum(l, 1, TRUE, clock)

(***************************************************************************)
(* C9.  (as claimed) sales_data_available is true in a snapshot exactly    *)
(* when the sales response is a 200 without GraphQL errors whose data has  *)
(* the myself object; with an empty or absent list of sales the four sales *)
(* fields are then 0.                                                      *)
(***************************************************************************)
C9_AvailableIffFetchSucceeded ==
    Published =>
        LET r == log.sales[1]
            succeeded == HasData(r) /\ r.body.data.v.myself.k = "val"
        IN  /\ Snapshot.sales_data_available = succeeded
            /\ (succeeded /\ (~HasSalesList(r) \/ SalesResultsOf(r).v = <<>>))
                   => AllZeroSales(Snapshot)

(***************************************************************************)
(* C10.  A response to a tracked query that is a non-200 status other than *)
(* 401 and 403, a body with GraphQL errors, a connection error, or a data  *)
(* tree without a creation object does not end the cycle, and the entry of *)
(* its slug, in the mapping being built and in the published snapshot, is  *)
(* the default item carrying only the slug.                                *)
(***************************************************************************)
\* a well-formed response whose data tree has no creation object
IsNoCreation(r) ==
    /\ IsBody(r) /\ ~HasGraphQLErrors(r)
    /\ \/ r.body.data.k = "missing"
       \/ r.body.data.k = "val" /\ r.body.data.v.creation.k # "val"

SlugOnlyItem(slug) ==
    [slug |-> slug, name |-> None, url |-> None, image_url |-> None, creator |-> None,
     published_at |-> None, views_count |-> 0, downloads_count |-> 0, likes_count |-> 0,
     window_start |-> None, window_end |-> None, is_within_30_days |-> FALSE]

C10_FailedTrackedItemIsDefault ==
    \A i \in 1..Len(log.tracked) :
        LET e == log.tracked[i]
            holds(d) == DictHas(d, e.slug) /\ DictGet(d, e.slug) = SlugOnlyItem(e.slug)
        IN  (IsNonAuthFailure(e.response) \/ IsNoCreation(e.response)) =>
                /\ ~(/\ pc = "idle"
                     /\ i = Len(log.tracked)
                     /\ outcome.kind \notin {"published", "CancelledError"})
                /\ pc = "tracked" => holds(tracked_creations)
                /\ Published => holds(Snapshot.tracked_creations)

\* the first of two tracked queries was answered 500, the second with a creation
C10_Witness ==
    /\ Published
    /\ Len(log.tracked) = 2
    /\ log.tracked[1].response.kind = "http" /\ log.tracked[1].response.status = 500
    /\ DictGet(Snapshot.tracked_creations, log.tracked[1].slug)
           = SlugOnlyItem(log.tracked[1].slug)
    /\ DictGet(Snapshot.tracked_creations, log.tracked[2].slug).name = Some("Widget")

(***************************************************************************)
(* C11.  In every published snapshot followers_count, following_count and  *)
(* creations_count equal the members followersCount, followeesCount and    *)
(* creationsCount of the user object of the profile response, a null or    *)
(* missing member counting as 0.                                           *)
(***************************************************************************)
ProfileUserOf(r) == r.body.data.v.user.v
MemberOrZero(f) == IF f.k = "val" THEN f.v ELSE 0

C11_ProfileCountsFromResponse ==
    Published =>
        LET u == ProfileUserOf(log.profile[1])
        IN  /\ Snapshot.followers_count = MemberOrZero(u.followersCount)
            /\ Snapshot.following_count = MemberOrZero(u.followeesCount)
            /\ Snapshot.creations_count = MemberOrZero(u.creationsCount)

\* a snapshot was published from a user object with a missing, a null and a
\* non-zero counter
C11_Witness ==
    /\ Published
    /\ ProfileUserOf(log.profile[1]).followersCount.k = "missing"
    /\ ProfileUserOf(log.profile[1]).creationsCount.k = "null"
    /\ Snapshot.following_count = 4
    /\ Snapshot.followers_count = 0

(***************************************************************************)
(* C12.  Every published snapshot is fully populated: username is a string *)
(* (never null), every numeric field is a number, latest_creation and      *)
(* top_downloaded are creation records and the tracked mapping is a        *)
(* mapping of slugs to tracked items.                                      *)
(***************************************************************************)
CreationFields ==
    {"name", "url", "image_url", "views_count", "downloads_count", "likes_count",
     "published_at"}

C12_FullyPopulated ==
    Published =>
        /\ Snapshot.username # None
        /\ {Snapshot.followers_count, Snapshot.following_count, Snapshot.creations_count,
            Snapshot.total_sales_amount, Snapshot.total_sales_count,
            Snapshot.monthly_sales_amount, Snapshot.monthly_sales_count} \subseteq Nat
        /\ Snapshot.sales_data_available \in BOOLEAN
        /\ DOMAIN Snapshot.latest_creation = CreationFields
        /\ DOMAIN Snapshot.top_downloaded = CreationFields
        /\ \A i \in 1..Len(Snapshot.tracked_creations) :
               Snapshot.tracked_creations[i][2].slug = Snapshot.tracked_creations[i][1]

(***************************************************************************)
(* C13.  For every tracked item of a published snapshot, is_within_30_days *)
(* is true exactly when published_at is present and the instant of the     *)
(* parse is at or before published_at plus 30 days, whether or not the     *)
(* timestamp carries a UTC offset.                                         *)
(***************************************************************************)
TrackedItems == {Snapshot.tracked_creations[i][2] : i \in 1..Len(Snapshot.tracked_creations)}

C13_WithinThirtyDaysIff ==
    Published =>
        \A item \in TrackedItems :
            item.is_within_30_days <=>
                (item.published_at # None /\ clock <= item.published_at[1].t + ThirtyDays)

(***************************************************************************)
(* C14.  In every tracked item of a published snapshot published_at,       *)
(* window_start and window_end are all set or all unset; when set,         *)
(* window_start is published_at and window_end is published_at plus 30     *)
(* days; when the response's publishedAt is absent or unparseable the      *)
(* three are unset and is_within_30_days is false.                         *)
(***************************************************************************)
\* the creation object of a tracked response that carries one
HasCreation(r) == HasData(r) /\ r.body.data.v.creation.k = "val"
CreationOf(r) == r.body.data.v.creation.v
\* the member publishedAt holds no timestamp the parser accepts
NoPublishedAt(f) == f.k # "val" \/ f.v.form \in {"empty", "bad"}

C14_WindowConsistent ==
    Published =>
        /\ \A item \in TrackedItems :
              /\ (item.published_at = None) = (item.window_start = None)
              /\ (item.published_at = None) = (item.window_end = None)
              /\ item.published_at # None =>
                    /\ item.window_start = item.published_at
                    /\ item.window_end[1].t = item.published_at[1].t + ThirtyDays
                    /\ item.window_end[1].aware = item.published_at[1].aware
              /\ item.published_at = None => ~item.is_within_30_days
        /\ \A i \in 1..Len(log.tracked) :
              (HasCreation(log.tracked[i].response)
                  /\ NoPublishedAt(CreationOf(log.tracked[i].response).publishedAt))
              => LET item == DictGet(Snapshot.tracked_creations, log.tracked[i].slug)
                 IN  /\ item.published_at = None
                     /\ item.window_start = None
                     /\ item.window_end = None
                     /\ ~item.is_within_30_days

\* a snapshot holds an item with a window and an item whose publishedAt was
\* rejected by the parser
C14_Witness ==
    /\ Published
    /\ \E item \in TrackedItems : item.window_end # None /\ item.is_within_30_days
    /\ \E i \in 1..Len(log.tracked) :
          /\ HasCreation(log.tracked[i].response)
          /\ CreationOf(log.tracked[i].response).publishedAt.k = "val"
          /\ CreationOf(log.tracked[i].response).publishedAt.v.form = "bad"
          /\ CreationOf(log.tracked[i].response) # EmptyCreationObj

(***************************************************************************)
(* C15.  The result of one call of the client follows the first matching   *)
(* rule: (1) status 401 or 403: authentication failure, whatever the       *)
(* strict flag; (2) another status than 200: update failure when strict,   *)
(* else a returned result with a non-empty errors list and no data; (3) a  *)
(* 200 body with a non-empty errors list: update failure when strict, else *)
(* the body is returned with its errors; (4) otherwise the body is         *)
(* returned with its data tree.  A non-strict call raises nothing but the  *)
(* authentication failure.                                                 *)
(***************************************************************************)
QueryDone == pc = "idle" /\ outcome.at = "query"
\* a returned result with a non-empty errors list and without data
ErroredNoData(r) ==
    /\ r.exc = "none"
    /\ r.val.errors.k = "val" /\ r.val.errors.v # <<>>
    /\ r.val.data.k # "val"

C15_ClientRuleOrder ==
    QueryDone =>
        LET response == log.profile[1]
        IN  /\ IsAuthResponse(response) => result.exc = "ConfigEntryAuthFailed"
            /\ IsNon200(response) =>
                  IF raise_on_error THEN result.exc = "UpdateFailed"
                  ELSE ErroredNoData(result)
            /\ HasGraphQLErrors(response) =>
                  IF raise_on_error THEN result.exc = "UpdateFailed"
                  ELSE result = Returns(response.body)
            /\ (IsBody(response) /\ ~HasGraphQLErrors(response)) =>
                  result = Returns(response.body)
            /\ ~raise_on_error => result.exc \in {"none", "ConfigEntryAuthFailed"}

(***************************************************************************)
(* C16.  Every network-level fault of a request (timeout, connection       *)
(* error) makes a strict call raise the update failure and a non-strict    *)
(* call return an errored result without data; no fault leaves the client  *)
(* as another exception.                                                   *)
(***************************************************************************)
IsNetworkFault(r) == r.kind \in {"ClientError", "TimeoutError"}

C16_NetworkFaultIsTransient ==
    (QueryDone /\ IsNetworkFault(log.profile[1])) =>
        IF raise_on_error THEN result.exc = "UpdateFailed" ELSE ErroredNoData(result)

(***************************************************************************)
(* C17.  Credential validation ends with a boolean and never raises: it    *)
(* is true exactly when the response carries a non-null user object, and   *)
(* false for an authentication failure, an absent user, any other failure  *)
(* of the request and a body without a data tree.                          *)
(***************************************************************************)
ValidationDone == pc = "idle" /\ outcome.at \in {"validate", "flow_validate"}
CarriesUser(r) == HasData(r) /\ r.body.data.v.user.k = "val"

C17_ValidationIsBoolean ==
    ValidationDone =>
        /\ outcome.kind \in {"valid", "invalid"}
        /\ outcome.kind = "valid" <=> CarriesUser(log.profile[1])

(***************************************************************************)
(* C18.  Slug extraction is idempotent: extracting from the value it       *)
(* returned gives that value again, for every input; and a plain slug is   *)
(* returned unchanged.                                                     *)
(***************************************************************************)
ExtractDone == pc = "idle" /\ outcome.at = "extract"

C18_ExtractIdempotent ==
    ExtractDone =>
        /\ ExtractSlugFromUrl(extracted) = extracted
        /\ url_or_slug = <<"widget-x">> => extracted = <<"widget-x">>

(***************************************************************************)
(* C19.  Slug extraction returns the final path segment of a long-form URL *)
(* (.../3d-model/<category>/<slug>) and of a short-form URL (.../<slug>),  *)
(* with or without a query or fragment after the path, and the trimmed     *)
(* input for an input that names no URL of the site.                       *)
(***************************************************************************)
UrlSuffixes == {<<>>, <<"?", "ref=1">>, <<"#", "top">>}
NamesNoSite(s) == \A i \in 1..Len(s) : s[i] # "cults3d.com"

C19_ExtractFinalSegment ==
    ExtractDone =>
        /\ \A seg \in SlugSegments, sfx \in UrlSuffixes :
              /\ url_or_slug = LongBase \o seg \o sfx => extracted = seg
              /\ url_or_slug = ShortBase \o seg \o sfx => extracted = seg
        /\ NamesNoSite(url_or_slug) => extracted = Strip(url_or_slug)

(***************************************************************************)
(* C20.  The url of a tracked item of a published snapshot is the          *)
(* normalised shortUrl of its creation object: a root-relative URL is      *)
(* prefixed with the https address of the site, an already-absolute (http  *)
(* or https) URL is left unchanged, an empty, null or missing one becomes  *)
(* unset; so the url is always unset or absolute.                          *)
(***************************************************************************)
\* the first piece of a URL tells its kind: a path from the root, or the
\* scheme http / https ("http" is followed by "://..." or "s://...")
IsRootRelativeUrl(u) == u # <<>> /\ u[1] \in {"/en/gear", "/en/number", "/en/bracket"}
IsAbsoluteUrl(u) == u # <<>> /\ u[1] = "http"

C22_ProfileGatesCycle ==
    [][/\ (pc' = "creations" /\ pc # "creations") =>
              /\ pc = "profile"
              /\ log'.profile # <<>> /\ CarriesUser(log'.profile[Len(log'.profile)])
              /\ log'.creations = <<>> /\ log'.sales = <<>> /\ log'.tracked = <<>>
       /\ (pc' = "sales" /\ pc # "sales") =>
              pc = "creations" /\ log'.sales = <<>> /\ log'.tracked = <<>>
       /\ (pc' = "tracked" /\ <<pc, idx>> # <<pc', idx'>>) =>
              /\ \/ pc = "sales" /\ idx' = 1
                 \/ pc = "tracked" /\ idx' = idx + 1
              /\ Len(log'.tracked) = idx' - 1
              /\ idx' \in 1..Len(options) /\ slugs'[idx'] = options[idx']
       /\ (pc = "profile" /\ pc' = "idle") =>
              log'.creations = <<>> /\ log'.sales = <<>> /\ log'.tracked = <<>>]_vars

\* a cycle published after two tracked queries, sent in the order of the list
C22_Witness ==
    /\ Published
    /\ Len(options) = 2 /\ Len(log.tracked) = 2
    /\ log.tracked[1].slug = options[1] /\ log.tracked[2].slug = options[2]
    /\ CarriesUser(log.profile[1])

(***************************************************************************)
(* C23.  No retry inside a cycle.  The profile, creations and sales        *)
(* queries are answered at most once per cycle and every position of the   *)
(* tracked list at most once, whatever the responses; a response is never  *)
(* followed by a second request of the same query; a cycle that publishes  *)
(* has received exactly 3 responses plus one per entry of the tracked      *)
(* list.                                                                   *)
(***************************************************************************)
C23_NoRetry ==
    /\ Len(log.profile) <= 1 /\ Len(log.creations) <= 1 /\ Len(log.sales) <= 1
    /\ Len(log.tracked) <= Len(options)
    /\ \A i \in 1..Len(log.tracked) : log.tracked[i].slug = options[i]
    /\ Published =>
           Len(log.profile) + Len(log.creations) + Len(log.sales) + Len(log.tracked)
               = 3 + Len(options)

\* a cycle published although its creations and sales queries and one of its
\* two tracked queries failed: 5 requests
C23_Witness ==
    /\ Published
    /\ Len(options) = 2 /\ Len(log.tracked) = 2
    /\ IsNon200(log.creations[1]) /\ IsNon200(log.sales[1])
    /\ \E i \in 1..2 : IsNon200(log.tracked[i].response)

(***************************************************************************)
(* C24.  (as claimed) The tracked list is read when a cycle starts: a      *)
(* cycle that publishes has queried exactly the slugs that were configured *)
(* at the moment it started, in their order, and its snapshot has one      *)
(* tracked item per such slug, also when the list was changed while the    *)
(* cycle was in flight.                                                    *)
(***************************************************************************)
C24_QueriesSlugsAsOfCycleStart ==
    Published =>
        /\ Len(log.tracked) = Len(started_with)
        /\ \A i \in 1..Len(log.tracked) : log.tracked[i].slug = started_with[i]
        /\ DictKeys(Snapshot.tracked_creations) = {started_with[i] : i \in 1..Len(started_with)}

(***************************************************************************)
(* C28.  The add step of the options flow.  A step either appends one      *)
(* slug, the one extracted from the trimmed input, to the end of the list  *)
(* and reports no error, which it does only when the slug is not in the    *)
(* list; or leaves the list as it was and reports already_tracked (the     *)
(* slug is in the list) or invalid_url (the trimmed input is empty).  The  *)
(* list, duplicate-free at the start, stays free of duplicates and of      *)
(* empty slugs.                                                            *)
(***************************************************************************)
\* a list without duplicates and without empty slugs
CleanList(l) ==
    /\ \A i, j \in 1..Len(l) : l[i] = l[j] => i = j
    /\ \A i \in 1..Len(l) : l[i] # <<>>

CreationListOf(r) == r.body.data.v.user.v.latestCreation
HasCreationList(r) ==
    /\ CarriesUser(r)
    /\ CreationListOf(r).k = "val" /\ CreationListOf(r).v # <<>>

\* publishedAt of the first creation is no string: the parser calls
\* .replace on it, which raises
ParseRaises(r) ==
    /\ HasCreationList(r)
    /\ CreationListOf(r).v[1].publishedAt.k = "val"
    /\ CreationListOf(r).v[1].publishedAt.v.form = "nonstring"

C25_LatestEqualsTopDownloaded ==
    Published =>
        /\ \A f \in CreationFields :
               Snapshot.latest_creation[f] = Snapshot.top_downloaded[f]
        /\ (HasCreationList(log.creations[1]) /\ ~ParseRaises(log.creations[1])) =>
               LET first == CreationListOf(log.creations[1]).v[1]
                   latest == Snapshot.latest_creation
               IN  /\ latest.name = Get(first.name)
                   /\ latest.image_url = Get(first.illustrationImageUrl)
                   /\ latest.views_count = MemberOrZero(first.viewsCount)
                   /\ latest.downloads_count = MemberOrZero(first.downloadsCount)
                   /\ latest.likes_count = MemberOrZero(first.likesCount)

\* a list of two creations, the first with null and missing counters, was
\* published as the first one, with 0 for these counters
C25_Witness ==
    /\ Published
    /\ HasCreationList(log.creations[1])
    /\ Len(CreationListOf(log.creations[1]).v) = 2
    /\ CreationListOf(log.creations[1]).v[1].name = Val("Gear")
    /\ CreationListOf(log.creations[1]).v[2].name = Val("Widget")
    /\ Snapshot.latest_creation.name = Some("Gear")
    /\ Snapshot.top_downloaded.likes_count = 2
    /\ Snapshot.top_downloaded.views_count = 0

(***************************************************************************)
(* C26.  When the creations query fails (a status other than 200, GraphQL  *)
(* errors, a network fault, a body or a creation that makes the parsing    *)
(* raise) or its response carries no user object or no creation, the cycle *)
(* goes on to the sales fetch with latest_creation and top_downloaded at   *)
(* the default empty creation, and publishes them so.                      *)
(***************************************************************************)
\* the creations response is a failure or carries nothing to parse
CreationsUnavailable(r) ==
    \/ r.kind # "http"
    \/ r.status # 200
    \/ r.body.null
    \/ HasGraphQLErrors(r)
    \/ ~CarriesUser(r)
    \/ ~HasCreationList(r)
    \/ ParseRaises(r)

C26_CreationsFailureGivesDefaults ==
    (log.creations # <<>> /\ CreationsUnavailable(log.creations[1])) =>
        /\ pc \in {"sales", "idle"}
        /\ pc = "sales" =>
               /\ latest_creation = DefaultCreationData
               /\ top_downloaded = DefaultCreationData
        /\ pc = "idle" =>
               /\ Published
               /\ Snapshot.latest_creation = DefaultCreationData
               /\ Snapshot.top_downloaded = DefaultCreationData

\* cycles published the default creation after a 401, after a timeout and
\* after a creation whose publishedAt is a number
C26_Witness ==
    /\ Published
    /\ Snapshot.latest_creation = DefaultCreationData
    /\ Snapshot.sales_data_available
    /\ \/ IsAuthResponse(log.creations[1])
       \/ log.creations[1].kind = "TimeoutError"
       \/ ParseRaises(log.creations[1])

(***************************************************************************)
(* C27.  Entry setup runs the first refresh before it exposes anything.    *)
(* The coordinator is stored on the entry, the platforms are forwarded and *)
(* the options listener is registered only when the first cycle has        *)
(* published a snapshot; a setup whose first cycle raised                  *)
(* ConfigEntryAuthFailed raises that very exception, and a setup whose     *)
(* first cycle failed in any other way raises ConfigEntryNotReady; a setup *)
(* that failed has exposed nothing and a loaded entry has all three.       *)
(***************************************************************************)
\* async_setup_entry has returned or raised
SetupOver == entry.state # "setup"
Exposed == entry.runtime_data \/ entry.platforms \/ entry.listener

C27_FirstRefreshBeforeExposure ==
    /\ Exposed => (cycles = 1 /\ Published /\ data # None)
    /\ (entry.platforms \/ entry.listener) => entry.runtime_data
    /\ entry.state = "loaded" => (entry.runtime_data /\ entry.platforms /\ entry.listener)
    /\ (SetupOver /\ entry.state # "loaded") => ~Exposed
    /\ SetupOver =>
           CASE outcome.kind = "published" -> entry.state = "loaded"
             [] outcome.kind = "ConfigEntryAuthFailed" ->
                    entry.state = "ConfigEntryAuthFailed"
             [] outcome.kind = "CancelledError" -> TRUE
             [] OTHER -> entry.state = "ConfigEntryNotReady"

\* setups ended in each of the three ways: loaded after a published first
\* cycle, re-raised auth failure of a tracked query, not ready after a profile
\* response without user
C27_Witness ==
    \/ entry = Loaded /\ Published /\ Len(log.tracked) = 2
    \/ /\ entry.state = "ConfigEntryAuthFailed" /\ outcome.at = "tracked"
    \/ /\ entry.state = "ConfigEntryNotReady" /\ outcome = Outcome("UpdateFailed", "profile")

(***************************************************************************)
(* C29.  (as claimed) The two credential checks agree: whatever the        *)
(* response to the validation request, the coordinator's                   *)
(* async_validate_credentials ends like the wizard's _validate_credentials *)
(* does on that response, with the same boolean.                           *)
(***************************************************************************)
C29_CredentialChecksAgree ==
    (pc = "idle" /\ outcome.at = "validate") =>
        outcome.kind = (IF FlowValidateCredentials(log.profile[1]) THEN "valid"
                        ELSE "invalid")

(***************************************************************************)
(* C30.  In every published snapshot the monthly sales aggregates are      *)
(* bounded by the totals: monthly_sales_count is at most                   *)
(* total_sales_count, and monthly_sales_amount is at most                  *)
(* total_sales_amount when no sale record of the response has a negative   *)
(* income value.                                                           *)
(***************************************************************************)
\* no record of the sales response has a negative income value
NoNegativeIncome(r) ==
    HasSalesList(r) =>
        \A i \in 1..Len(SalesResultsOf(r).v) : ClaimedIncome(SalesResultsOf(r).v[i]) >= 0

C30_MonthlyBoundedByTotals ==
    Published =>
        /\ Snapshot.monthly_sales_count <= Snapshot.total_sales_count
        /\ Snapshot.monthly_sales_count >= 0
        /\ NoNegativeIncome(log.sales[1]) =>
               Snapshot.monthly_sales_amount <= Snapshot.total_sales_amount

\* a sale of 4 inside the window and a sale of 5 before it: 1 of 2 sales and
\* 4 of 9 are monthly
C30_Witness ==
    /\ Published
    /\ Snapshot.sales_data_available
    /\ NoNegativeIncome(log.sales[1])
    /\ Snapshot.monthly_sales_count = 1 /\ Snapshot.total_sales_count = 2
    /\ Snapshot.monthly_sales_amount = 4 /\ Snapshot.total_sales_amount = 9

====
